---- MODULE Spec2Model ----
(***************************************************************************)
(* Sensor evaluation daemon core (dagster/_daemon/sensor.py).              *)
(*                                                                         *)
(* One sensor, one daemon.  The persisted world is the instance store:     *)
(* the instigator state of the sensor, its ticks, the runs and the         *)
(* backfills.  Everything else is memory of the daemon process and is lost *)
(* when the process is killed.                                             *)
(***************************************************************************)
EXTENDS Integers, Sequences, FiniteSets, TLC

\* ---------------------------------------------------------------- constants
MIN_INTERVAL_LOOP_TIME == 5
MAX_TIME_TO_RESUME_TICK_SECONDS == 60 * 60 * 24
MAX_FAILURE_RESUBMISSION_RETRIES == 1
FINISHED_TICK_STATES == {"SKIPPED", "SUCCESS", "FAILURE"}

\* ------------------------------------------------------------------- bounds
\* advances of the wall clock between two passes of the loop
MaxJumps == 1
\* the same with a submission pool, where a race of a call the pool goes on with
\* takes a tick, its retry and a fresh tick
MaxJumpsSubmitPool == 2
\* seconds the clock may advance between the two clock reads of one gate
MaxSkew == 1
\* the sensor's configured min_interval_seconds
MinIntervalSeconds == 30

\* None for timestamps, cursors and run ids (all real values are positive)
None == 0
NoKey == "none"
Keys == {"k1", "k2"}

\* ------------------------------------------------------------- run requests
RunRequest(k) == [run_key |-> k, backfill |-> FALSE, stale_assets_only |-> FALSE]
StaleRequest(k) == [run_key |-> k, backfill |-> FALSE, stale_assets_only |-> TRUE]
BackfillRequest == [run_key |-> NoKey, backfill |-> TRUE, stale_assets_only |-> FALSE]

\* the run request lists the sensor's user code may emit in one evaluation
RunRequestLists ==
    { <<RunRequest("k1"), RunRequest("k1")>>,
      <<BackfillRequest, StaleRequest("k2")>> }

SeqToSet(s) == {s[i] : i \in DOMAIN s}

\* a tick is created only after the gate let a pass through, and the gate holds
\* back every pass but the first until the clock has advanced
MaxTicks == (IF MaxJumps > MaxJumpsSubmitPool THEN MaxJumps ELSE MaxJumpsSubmitPool) + 1
\* ids are handed out in increasing order; at most two per tick
MaxId == 2 * MaxTicks
Ids == 1..MaxId

VARIABLES
    clock,          \* wall clock, seconds
    jumps,          \* number of clock advances so far
    state,          \* persisted InstigatorState of the sensor
    ticks,          \* persisted ticks, tick_id = index
    runs,           \* persisted runs, by run id
    backfills,      \* number of add_backfill calls, by backfill id
    nextId,         \* next fresh id of make_new_run_id / make_new_backfill_id
    snap,           \* the iteration's snapshot of the sensor state
    pc,             \* position of the daemon in _process_tick_generator
    now,            \* `now` of _process_tick_generator
    sensor_state,   \* `sensor_state` of _process_tick_generator
    tid,            \* tick_id of the tick held by the launch context
    tick,           \* SensorLaunchContext._tick
    cof,            \* SensorLaunchContext._should_update_cursor_on_failure
    resumed,        \* the context runs _resume_tick (not _evaluate_sensor)
    out_cursor,     \* sensor_runtime_data.cursor
    pending,        \* resolved_run_ids_with_requests
    existing,       \* existing_runs_by_key
    idx,            \* next element of pending whose result is consumed
    tasks,          \* calls of submit_run_request, running or waiting
    threadpool_executor,         \* the evaluation pool is configured
    submit_threadpool_executor,  \* the submission pool is configured
    pool,           \* sensor_state of the _process_tick calls waiting in the evaluation pool
    hist,           \* history: what the last launch context close did
    loop,           \* execute_sensor_iteration_loop: its position and what it has yielded
    gate,           \* a call of is_under_min_interval: its arguments and its result
    parts,          \* dynamic partitions: the store, and a call of the handler on a tick
    iteration       \* execute_sensor_iteration over several sensors, inline

store == <<state, ticks, runs, backfills, nextId>>
locals == <<now, sensor_state, tid, tick, cof, resumed, out_cursor, pending, existing, idx>>
vars == <<clock, jumps, state, ticks, runs, backfills, nextId, snap, pc, now, sensor_state,
          tid, tick, cof, resumed, out_cursor, pending, existing, idx, tasks, threadpool_executor,
          submit_threadpool_executor, pool, hist, loop, gate, parts,
          iteration>>
config == <<threadpool_executor, submit_threadpool_executor>>
aside == <<loop, gate, parts, iteration>>
daemon == <<clock, jumps, store, snap, pc, locals, tasks, config, pool, hist>>

\* ------------------------------------------------------------ record shapes
NoState ==
    [ present |-> FALSE,
      last_tick_timestamp |-> None,
      last_tick_start_timestamp |-> None,
      last_tick_success_timestamp |-> None,
      last_sensor_start_timestamp |-> None,
      last_run_key |-> NoKey,
      cursor |-> None ]

NoRun == [status |-> "none", run_key |-> NoKey, launches |-> 0]

NoTick ==
    [ status |-> "none", timestamp |-> None, run_ids |-> <<>>, run_keys |-> <<>>,
      run_requests |-> <<>>, reserved_run_ids |-> <<>>, cursor |-> None,
      failure_count |-> 0, error |-> "none", skip_reason |-> "none" ]

\* SensorRuntimeData without requests, evaluations, reactions or skip message
NoOutput ==
    [ run_requests |-> <<>>, automation_condition_evaluations |-> FALSE,
      dagster_run_reactions |-> <<>>, skip_message |-> FALSE ]

NoExisting == [k \in Keys |-> None]

NoHist ==
    [ kind |-> "none", tid |-> 0, status |-> "none", cof |-> FALSE,
      pre_cursor |-> None, pre_last_run_key |-> NoKey, resumed |-> FALSE,
      interrupted |-> FALSE, stale |-> 0, failure_count |-> 0, exc |-> "none",
      selected |-> NoTick, created |-> FALSE,
      reaction_error |-> FALSE, yielded |-> "None", output |-> NoOutput ]

\* ---------------------------------------------------- TickData / InstigatorTick
\* TickData(...) of a fresh tick
TickData(timestamp) ==
    [NoTick EXCEPT !.status = "STARTED", !.timestamp = timestamp]

with_status(t, status, error, failure_count) ==
    [t EXCEPT !.status = status, !.error = error, !.failure_count = failure_count]

with_cursor(t, cursor) == [t EXCEPT !.cursor = cursor]

with_reason(t, skip_reason) == [t EXCEPT !.skip_reason = skip_reason]

with_run_info(t, run_id, run_key) ==
    [t EXCEPT !.run_ids = IF run_id # None THEN Append(t.run_ids, run_id) ELSE t.run_ids,
              !.run_keys = IF run_key # NoKey THEN Append(t.run_keys, run_key)
                           ELSE t.run_keys]

with_run_requests(t, run_requests, reserved_run_ids, cursor) ==
    [t EXCEPT !.run_requests = run_requests,
              !.reserved_run_ids = reserved_run_ids,
              !.cursor = cursor]

\* pairs (reserved id, request) whose id is not yet in run_ids, in order
unsubmitted_run_ids_with_requests(t) ==
    LET n == IF Len(t.reserved_run_ids) < Len(t.run_requests)
             THEN Len(t.reserved_run_ids) ELSE Len(t.run_requests)
        pairs == [i \in 1..n |-> [run_id |-> t.reserved_run_ids[i], request |-> t.run_requests[i]]]
    IN  SelectSeq(pairs, LAMBDA p : p.run_id \notin SeqToSet(t.run_ids))

\* execute_sensor_iteration_loop before it is called
NoLoop ==
    [ pc |-> "none", yielded |-> <<>>, shutdown_event |-> FALSE, until |-> FALSE,
      expired |-> FALSE, slept |-> FALSE, heartbeats |-> 0, started_after_shutdown |-> 0 ]

\* no call of is_under_min_interval
NoGate ==
    [ state |-> [present |-> FALSE, last_tick_timestamp |-> None,
                 last_tick_start_timestamp |-> None],
      min_interval_seconds |-> None, current_timestamp |-> 0,
      returned |-> FALSE, result |-> FALSE ]

\* no dynamic partitions and no call of _handle_dynamic_partitions_requests
NoParts ==
    [ dynamic_partitions |-> {}, dynamic_partitions_requests |-> <<>>, idx |-> 1,
      dynamic_partitions_request_results |-> <<>>, before |-> {} ]

\* no stored InstigatorState of a sensor of the iteration
NoSensorState ==
    [ present |-> FALSE, status |-> "none", handled_by_asset_daemon |-> FALSE,
      last_tick_timestamp |-> None, last_tick_start_timestamp |-> None ]

\* no call of execute_sensor_iteration
NoIteration ==
    [ pc |-> "none", external_sensors |-> <<>>, instigator_states |-> <<>>,
      all_sensor_states |-> <<>>, sensors |-> <<>>, i |-> 1, ticks |-> <<>>,
      evaluations |-> <<>>, state_writes |-> <<>>, processed |-> {},
      error_info |-> FALSE, raised |-> <<>>, yielded |-> <<>> ]

\* --------------------------------------------------------------- Interval gate
Max(a, b) == IF a >= b THEN a ELSE b

\* is_under_min_interval looking at last_tick_timestamp only
is_under_min_interval_since_last_tick(s, min_interval_seconds, current_timestamp) ==
    IF ~s.present THEN FALSE
    ELSE IF s.last_tick_start_timestamp = None /\ s.last_tick_timestamp = None THEN FALSE
    ELSE IF min_interval_seconds = None THEN FALSE
    ELSE current_timestamp - s.last_tick_timestamp < min_interval_seconds

is_under_min_interval(s, min_interval_seconds, current_timestamp) ==
    IF ~s.present THEN FALSE
    ELSE IF s.last_tick_start_timestamp = None /\ s.last_tick_timestamp = None THEN FALSE
    ELSE IF min_interval_seconds = None THEN FALSE
    ELSE current_timestamp - Max(s.last_tick_timestamp, s.last_tick_start_timestamp)
            < min_interval_seconds

\* ---------------------------------------------------------------------- Init
Init ==
    /\ clock = 1
    /\ jumps = 0
    /\ state = NoState
    /\ ticks = <<>>
    /\ runs = [r \in Ids |-> NoRun]
    /\ backfills = [r \in Ids |-> 0]
    /\ nextId = 1
    /\ snap = [taken |-> FALSE, state |-> NoState]
    /\ pc = "idle"
    /\ now = None
    /\ sensor_state = NoState
    /\ tid = 0
    /\ tick = NoTick
    /\ cof = FALSE
    /\ resumed = FALSE
    /\ out_cursor = None
    /\ pending = <<>>
    /\ existing = NoExisting
    /\ idx = 0
    /\ tasks = {}
    /\ threadpool_executor \in BOOLEAN
    /\ submit_threadpool_executor \in BOOLEAN
    /\ submit_threadpool_executor => threadpool_executor
    /\ pool = <<>>
    /\ hist = NoHist

\* the daemon's memory when it holds no tick
ResetLocals ==
    /\ now' = None
    /\ sensor_state' = NoState
    /\ tid' = 0
    /\ tick' = NoTick
    /\ cof' = FALSE
    /\ resumed' = FALSE
    /\ out_cursor' = None
    /\ pending' = <<>>
    /\ existing' = NoExisting
    /\ idx' = 0

\* ------------------------------------------------------------------ the clock
\* time passes between two passes of the loop: the sensor's interval (a little less
\* while a pass holds a snapshot taken before the last tick: the only case in which
\* less than the interval can matter) or, while a tick is left in STARTED, the time
\* up to which it is resumed and the first second after it
ClockJumps ==
    (IF snap.taken THEN {MinIntervalSeconds - MaxSkew} ELSE {MinIntervalSeconds}) \cup
    (IF Len(ticks) > 0 /\ ticks[Len(ticks)].status = "STARTED"
       THEN {MAX_TIME_TO_RESUME_TICK_SECONDS, MAX_TIME_TO_RESUME_TICK_SECONDS + 1} ELSE {})

AdvanceClock ==
    /\ pc = "idle"
    /\ pool = <<>>
    /\ state.present
    /\ jumps < (IF submit_threadpool_executor THEN MaxJumpsSubmitPool ELSE MaxJumps)
    /\ \E d \in ClockJumps : clock' = clock + d
    /\ jumps' = jumps + 1
    /\ UNCHANGED <<store, snap, pc, locals, tasks, config, aside, pool, hist>>

\* ------------------------------------------------- execute_sensor_iteration
\* the state the loop adds for a sensor that runs by default and has none
DeclaredInCodeState == [NoState EXCEPT !.present = TRUE, !.last_sensor_start_timestamp = clock]

\* what the loop does when it reaches the sensor with the state `seen` of its
\* snapshot: the sensor_state it passes on, or NoState when the gate holds it back
dispatch(seen) ==
    IF ~seen.present THEN DeclaredInCodeState
    ELSE IF is_under_min_interval(seen, MinIntervalSeconds, clock) THEN NoState
    ELSE seen

\* the test of the recorded future that ignores it
future_ignored(waiting, position) == FALSE

\* selector_id in sensor_tick_futures and not sensor_tick_futures[selector_id].done():
\* the call of _process_tick last submitted for the sensor waits in the pool or runs
future_not_done(waiting, position) == waiting # <<>> \/ position # "idle"

\* the calls of _process_tick for the sensor that are queued or running in the pool
in_flight == Len(pool) + (IF pc # "idle" THEN 1 ELSE 0)

\* one pass of the loop over the sensor, with a snapshot that is the state of the
\* store.  Inline the tick is processed at once; with an evaluation pool the pass
\* submits _process_tick unless the future recorded for the sensor is not done
Dispatch ==
    /\ ~snap.taken
    /\ IF threadpool_executor THEN ~future_not_done(pool, pc) ELSE pc = "idle"
    /\ state' = IF state.present THEN state ELSE DeclaredInCodeState
    /\ IF threadpool_executor
         THEN /\ pool' = IF dispatch(state).present THEN Append(pool, dispatch(state))
                         ELSE pool
              /\ UNCHANGED <<pc, sensor_state>>
         ELSE /\ sensor_state' = dispatch(state)
              /\ pc' = IF dispatch(state).present THEN "begin" ELSE "idle"
              /\ UNCHANGED pool
    /\ UNCHANGED <<clock, jumps, ticks, runs, backfills, nextId, snap, now, tid, tick, cof,
                   resumed, out_cursor, pending, existing, idx, tasks, config, aside, hist>>

\* a worker of the evaluation pool takes the call: _process_tick starts (the model
\* runs the calls for the sensor one after the other)
StartProcessTick ==
    /\ pc = "idle"
    /\ pool # <<>>
    /\ sensor_state' = Head(pool)
    /\ pool' = Tail(pool)
    /\ pc' = "begin"
    /\ UNCHANGED <<clock, jumps, store, snap, now, tid, tick, cof, resumed, out_cursor,
                   pending, existing, idx, tasks, config, aside, hist>>

\* with an evaluation pool the next pass may take its snapshot (all_sensor_states)
\* while the tick of the previous pass is still waiting in the pool
TakeSnapshot ==
    /\ pc = "begin"
    /\ ~snap.taken
    /\ snap' = [taken |-> TRUE, state |-> state]
    /\ UNCHANGED <<clock, jumps, store, pc, locals, tasks, config, aside, pool, hist>>

\* ... and reach the sensor with the state of the snapshot: the sensor is dropped
\* for this pass while its future is not done, else _process_tick is submitted
DispatchSnapshot ==
    /\ snap.taken
    /\ snap' = [taken |-> FALSE, state |-> NoState]
    /\ pool' = IF ~future_not_done(pool, pc) /\ dispatch(snap.state).present
                 THEN Append(pool, dispatch(snap.state))
                 ELSE pool
    /\ UNCHANGED <<clock, jumps, store, pc, locals, tasks, config, aside, hist>>

\* ---------------------------------------------------- _process_tick_generator
\* the gate trusting the state the loop passed
keep_passed_sensor_state(stored, passed) == passed

\* sensor_state = instance.get_instigator_state(...): the parameter is replaced
reread_sensor_state(stored, passed) == stored

\* mark_sensor_state_for_tick taking the tick's start for the sensor's start
mark_sensor_state_for_tick_as_sensor_start(s, timestamp) ==
    [s EXCEPT !.present = TRUE, !.last_tick_start_timestamp = timestamp,
              !.last_tick_success_timestamp = None,
              !.last_sensor_start_timestamp = timestamp]

\* mark_sensor_state_for_tick leaving last_tick_success_timestamp as it is
mark_sensor_state_for_tick_keeps_success(s, timestamp) ==
    [s EXCEPT !.present = TRUE, !.last_tick_start_timestamp = timestamp]

mark_sensor_state_for_tick(s, timestamp) ==
    [ present |-> TRUE,
      last_tick_timestamp |-> s.last_tick_timestamp,
      last_tick_start_timestamp |-> timestamp,
      last_tick_success_timestamp |-> None,
      last_sensor_start_timestamp |-> s.last_sensor_start_timestamp,
      last_run_key |-> s.last_run_key,
      cursor |-> s.cursor ]

\* now = get_current_datetime(); sensor_state = instance.get_instigator_state(...);
\* is_under_min_interval(sensor_state, ...), which reads the clock again, up to
\* MaxSkew seconds later; when it lets the tick through, mark_sensor_state_for_tick
Begin ==
    /\ pc = "begin"
    /\ LET read == reread_sensor_state(state, sensor_state)
       IN  \E skew \in {0, MaxSkew} :
             IF is_under_min_interval(read, MinIntervalSeconds, clock + skew)
               THEN /\ pc' = "idle"
                    /\ ResetLocals
                    /\ UNCHANGED <<state, hist>>
               ELSE /\ pc' = "select"
                    /\ now' = clock
                    /\ sensor_state' = read
                    /\ state' = mark_sensor_state_for_tick(read, clock)
                    /\ hist' = NoHist
                    /\ UNCHANGED <<tid, tick, cof, resumed, out_cursor, pending, existing, idx>>
    /\ UNCHANGED <<clock, jumps, ticks, runs, backfills, nextId, snap, tasks, config, aside, pool>>

\* ------------------------------------------------------------- Tick selector
has_unrequested_runs(t) == Len(unsubmitted_run_ids_with_requests(t)) > 0

\* the interrupted tick resumed whatever its age
resume_interrupted_any_age(t, evaluation_timestamp) ==
    /\ t.status = "STARTED"
    /\ has_unrequested_runs(t)

\* the interrupted tick resumed only before the limit of its age
resume_interrupted_before_limit(t, evaluation_timestamp) ==
    /\ t.status = "STARTED"
    /\ evaluation_timestamp - t.timestamp < MAX_TIME_TO_RESUME_TICK_SECONDS
    /\ has_unrequested_runs(t)

\* the interrupted tick is resumed
resume_interrupted(t, evaluation_timestamp) ==
    /\ t.status = "STARTED"
    /\ evaluation_timestamp - t.timestamp <= MAX_TIME_TO_RESUME_TICK_SECONDS
    /\ has_unrequested_runs(t)

\* the failed tick submitted again whether or not it has unsubmitted reservations
retry_failed_any_reservations(t) ==
    /\ t.status = "FAILURE"
    /\ t.failure_count <= MAX_FAILURE_RESUBMISSION_RETRIES

\* the failed tick submitted again once more than the limit
retry_failed_once_more(t) ==
    /\ t.status = "FAILURE"
    /\ t.failure_count <= MAX_FAILURE_RESUBMISSION_RETRIES + 1
    /\ has_unrequested_runs(t)

\* the failed tick is submitted again, as a new tick
retry_failed(t) ==
    /\ t.status = "FAILURE"
    /\ t.failure_count <= MAX_FAILURE_RESUBMISSION_RETRIES
    /\ has_unrequested_runs(t)

\* the selector never fetching the latest tick
potentially_interrupted_tick_never_fetched(instigator_data, stored) == 0

\* the tick the selector looks at: none on the fast path
potentially_interrupted_tick(instigator_data, stored) ==
    IF instigator_data.present /\ instigator_data.last_tick_success_timestamp # None
      THEN 0
      ELSE Len(stored)

\* _get_evaluation_tick retrying a failed tick in place instead of as a new tick
get_evaluation_tick_retry_in_place(stored, instigator_data, evaluation_timestamp) ==
    LET n == potentially_interrupted_tick(instigator_data, stored)
        fresh == [ticks |-> Append(stored, TickData(evaluation_timestamp)),
                  tid |-> Len(stored) + 1]
    IN  IF n = 0 THEN fresh
        ELSE IF stored[n].status = "STARTED"
          THEN IF resume_interrupted(stored[n], evaluation_timestamp)
                 THEN [ticks |-> stored, tid |-> n]
                 ELSE LET skipped == with_status(stored[n], "SKIPPED", "none",
                                                 stored[n].failure_count)
                      IN  [ticks |-> Append([stored EXCEPT ![n] = skipped],
                                            TickData(evaluation_timestamp)),
                           tid |-> Len(stored) + 1]
        ELSE IF retry_failed(stored[n])
          THEN [ticks |-> [stored EXCEPT ![n] =
                             [with_status(stored[n], "STARTED", "none",
                                          stored[n].failure_count)
                                EXCEPT !.timestamp = evaluation_timestamp]],
                tid |-> n]
        ELSE fresh

\* _get_evaluation_tick: the ticks of the store afterwards and the id of the tick returned
get_evaluation_tick(stored, instigator_data, evaluation_timestamp) ==
    LET n == potentially_interrupted_tick(instigator_data, stored)
        fresh == [ticks |-> Append(stored, TickData(evaluation_timestamp)),
                  tid |-> Len(stored) + 1]
    IN  IF n = 0 THEN fresh
        ELSE IF stored[n].status = "STARTED"
          THEN IF resume_interrupted(stored[n], evaluation_timestamp)
                 THEN [ticks |-> stored, tid |-> n]
                 ELSE LET skipped == with_status(stored[n], "SKIPPED", "none",
                                                 stored[n].failure_count)
                      IN  [ticks |-> Append([stored EXCEPT ![n] = skipped],
                                            TickData(evaluation_timestamp)),
                           tid |-> Len(stored) + 1]
        ELSE IF retry_failed(stored[n])
          THEN [ticks |-> Append(stored,
                                 [with_status(stored[n], "STARTED", "none",
                                              stored[n].failure_count)
                                    EXCEPT !.timestamp = evaluation_timestamp]),
                tid |-> Len(stored) + 1]
        ELSE fresh

\* history: the last tick was left in STARTED with its reservations written and no
\* run or backfill of them created, and is still inside the resume window
killed_before_submission(stored, evaluation_timestamp) ==
    /\ Len(stored) > 0
    /\ LET t == stored[Len(stored)]
       IN  /\ t.status = "STARTED"
           /\ Len(t.reserved_run_ids) > 0
           /\ Len(t.run_ids) = 0
           /\ \A i \in DOMAIN t.reserved_run_ids :
                 /\ runs[t.reserved_run_ids[i]].status = "none"
                 /\ backfills[t.reserved_run_ids[i]] = 0
           /\ evaluation_timestamp - t.timestamp <= MAX_TIME_TO_RESUME_TICK_SECONDS

\* history: the last tick if it was left in STARTED and is older than the resume
\* window, else 0
dangling_tick(stored, evaluation_timestamp) ==
    IF /\ Len(stored) > 0
       /\ stored[Len(stored)].status = "STARTED"
       /\ evaluation_timestamp - stored[Len(stored)].timestamp
              > MAX_TIME_TO_RESUME_TICK_SECONDS
      THEN Len(stored) ELSE 0

\* _resume_tick handed every reservation of the tick
resume_tick_all_reservations(t) ==
    [i \in 1..Len(t.reserved_run_ids) |->
        [run_id |-> t.reserved_run_ids[i], request |-> t.run_requests[i]]]

\* the requests _resume_tick hands to _submit_run_requests:
\* tick.unsubmitted_run_ids_with_requests
resume_tick(t) == unsubmitted_run_ids_with_requests(t)

\* tick = _get_evaluation_tick(...); with SensorLaunchContext(...) as tick_context;
\* a tick with unsubmitted reservations goes to _resume_tick
Select ==
    /\ pc = "select"
    /\ LET got == get_evaluation_tick(ticks, sensor_state, now)
           t == got.ticks[got.tid]
       IN  /\ Len(got.ticks) <= MaxTicks
           /\ ticks' = got.ticks
           /\ tid' = got.tid
           /\ tick' = t
           /\ resumed' = has_unrequested_runs(t)
           /\ pending' = IF has_unrequested_runs(t) THEN resume_tick(t) ELSE <<>>
           /\ pc' = IF has_unrequested_runs(t) THEN "resolve" ELSE "evaluate"
           /\ hist' = [NoHist EXCEPT !.kind = "select", !.tid = got.tid,
                                     !.resumed = has_unrequested_runs(t),
                                     !.failure_count = t.failure_count,
                                     !.selected = t,
                                     !.created = Len(got.ticks) > Len(ticks),
                                     !.interrupted = killed_before_submission(ticks, now),
                                     !.stale = dangling_tick(ticks, now)]
    /\ cof' = FALSE
    /\ UNCHANGED <<clock, jumps, state, runs, backfills, nextId, snap, now, sensor_state,
                   out_cursor, existing, idx, tasks, config, aside, pool>>

\* ------------------------------------------------------------ Launch context
\* SensorLaunchContext.update_state
update_state(t, status, cursor, error, failure_count) ==
    LET t1 == with_status(t, status, error, failure_count)
    IN  IF cursor # None THEN with_cursor(t1, cursor) ELSE t1

\* _write taking the cursor and the run key of the tick whatever its status
write_state_any_status(s, t, should_update_cursor_on_failure, current_timestamp) ==
    [ present |-> TRUE,
      last_tick_timestamp |-> t.timestamp,
      last_run_key |-> IF Len(t.run_keys) > 0
                         THEN t.run_keys[Len(t.run_keys)] ELSE s.last_run_key,
      cursor |-> t.cursor,
      last_tick_start_timestamp |-> Max(t.timestamp, s.last_tick_start_timestamp),
      last_sensor_start_timestamp |-> s.last_sensor_start_timestamp,
      last_tick_success_timestamp |->
          IF t.status = "FAILURE" THEN None ELSE current_timestamp ]

\* _write marking the timestamp of the tick it closes
write_state_tick_timestamp(s, t, should_update_cursor_on_failure, current_timestamp) ==
    LET should_update == t.status # "FAILURE" \/ should_update_cursor_on_failure
    IN  [ present |-> TRUE,
          last_tick_timestamp |-> t.timestamp,
          last_run_key |-> IF Len(t.run_keys) > 0 /\ should_update
                             THEN t.run_keys[Len(t.run_keys)] ELSE s.last_run_key,
          cursor |-> IF should_update THEN t.cursor ELSE s.cursor,
          last_tick_start_timestamp |-> t.timestamp,
          last_sensor_start_timestamp |-> s.last_sensor_start_timestamp,
          last_tick_success_timestamp |->
              IF t.status = "FAILURE" THEN None ELSE current_timestamp ]

\* _write leaving the stored cursor as it is
write_state_keeps_cursor(s, t, should_update_cursor_on_failure, current_timestamp) ==
    LET should_update == t.status # "FAILURE" \/ should_update_cursor_on_failure
    IN  [ present |-> TRUE,
          last_tick_timestamp |-> t.timestamp,
          last_run_key |-> IF Len(t.run_keys) > 0 /\ should_update
                             THEN t.run_keys[Len(t.run_keys)] ELSE s.last_run_key,
          cursor |-> s.cursor,
          last_tick_start_timestamp |-> Max(t.timestamp, s.last_tick_start_timestamp),
          last_sensor_start_timestamp |-> s.last_sensor_start_timestamp,
          last_tick_success_timestamp |->
              IF t.status = "FAILURE" THEN None ELSE current_timestamp ]

\* the state SensorLaunchContext._write stores for a finished tick
write_state(s, t, should_update_cursor_on_failure, current_timestamp) ==
    LET should_update == t.status # "FAILURE" \/ should_update_cursor_on_failure
    IN  [ present |-> TRUE,
          last_tick_timestamp |-> t.timestamp,
          last_run_key |-> IF Len(t.run_keys) > 0 /\ should_update
                             THEN t.run_keys[Len(t.run_keys)] ELSE s.last_run_key,
          cursor |-> IF should_update THEN t.cursor ELSE s.cursor,
          last_tick_start_timestamp |-> Max(t.timestamp, s.last_tick_start_timestamp),
          last_sensor_start_timestamp |-> s.last_sensor_start_timestamp,
          last_tick_success_timestamp |->
              IF t.status = "FAILURE" THEN None ELSE current_timestamp ]

\* __exit__ counting an unreachable user code server as a failure
exit_tick_counting_unreachable(t, exc) ==
    IF exc \in {"unreachable", "error"}
      THEN update_state(t, "FAILURE", None, exc, t.failure_count + 1)
      ELSE t

\* the tick SensorLaunchContext.__exit__ flushes: exc is "none" (normal return or
\* GeneratorExit), "unreachable" or "error"
exit_tick(t, exc) ==
    IF exc = "unreachable" THEN update_state(t, "FAILURE", None, "unreachable", t.failure_count)
    ELSE IF exc = "error" THEN update_state(t, "FAILURE", None, "error", t.failure_count + 1)
    ELSE t

\* the calls of submit_run_request that go on after the context is left: the ones
\* the pool has not finished
left_running(ts) ==
    IF submit_threadpool_executor
      THEN {[t EXCEPT !.slot = 0] : t \in {u \in ts : u.stage \in {"queued", "created"}}}
      ELSE {}

\* __exit__ up to and including instance.update_tick (history: the exception the
\* context was left with, and that it was left before the tick was finished)
ExitContextRecording(t, exc, should_update_cursor_on_failure, h) ==
    LET t1 == exit_tick(t, exc)
    IN  /\ ticks' = [ticks EXCEPT ![tid] = t1]
        /\ hist' = [h EXCEPT !.exc = exc,
                                !.kind = IF t1.status \in FINISHED_TICK_STATES
                                           THEN @ ELSE "exit"]
        /\ IF t1.status \in FINISHED_TICK_STATES
             THEN /\ pc' = "write_state"
                  /\ tick' = t1
                  /\ cof' = should_update_cursor_on_failure
                  /\ UNCHANGED <<now, sensor_state, tid, resumed>>
                  /\ out_cursor' = None
                  /\ pending' = <<>>
                  /\ existing' = NoExisting
                  /\ idx' = 0
             ELSE /\ pc' = "idle"
                  /\ ResetLocals

ExitContextWith(t, exc, should_update_cursor_on_failure) ==
    ExitContextRecording(t, exc, should_update_cursor_on_failure, hist)

ExitContext(t, exc) == ExitContextWith(t, exc, cof)

\* the rest of _write: read the latest state and update it
WriteState ==
    /\ pc = "write_state"
    /\ state' = write_state(state, tick, cof, clock)
    /\ hist' = [kind |-> "close", tid |-> tid, status |-> tick.status, cof |-> cof,
                pre_cursor |-> sensor_state.cursor,
                pre_last_run_key |-> sensor_state.last_run_key,
                resumed |-> resumed, interrupted |-> hist.interrupted,
                stale |-> hist.stale, failure_count |-> hist.failure_count,
                exc |-> hist.exc, selected |-> hist.selected,
                created |-> hist.created, reaction_error |-> hist.reaction_error,
                yielded |-> hist.yielded, output |-> hist.output]
    /\ pc' = "idle"
    /\ ResetLocals
    /\ UNCHANGED <<clock, jumps, ticks, runs, backfills, nextId, snap, tasks, config, aside, pool>>

\* ------------------------------------------------------------------ Evaluator
\* the cursor the user code emits for the tick
EmittedCursor == tid

\* get_external_sensor_execution_data raises
EvaluateRaises ==
    /\ pc = "evaluate"
    /\ \E exc \in {"error", "unreachable"} : ExitContext(tick, exc)
    /\ tasks' = left_running(tasks)
    /\ UNCHANGED <<clock, jumps, state, runs, backfills, nextId, snap, config, aside, pool>>

\* the lists of run reactions a run status sensor emits: TRUE is a reaction with an error
RunReactionLists == {<<TRUE>>, <<FALSE>>, <<TRUE, FALSE>>, <<FALSE, TRUE>>}

\* what get_external_sensor_execution_data returns: nothing, a skip message, run
\* reactions (with and without a skip message), run requests (alone, and with a
\* reaction and a skip message), automation evaluations without run requests
SensorOutputs ==
    {NoOutput, [NoOutput EXCEPT !.skip_message = TRUE]}
    \cup {[NoOutput EXCEPT !.dagster_run_reactions = r] : r \in RunReactionLists}
    \cup {[NoOutput EXCEPT !.dagster_run_reactions = <<FALSE>>, !.skip_message = TRUE]}
    \cup {[NoOutput EXCEPT !.run_requests = rl] : rl \in RunRequestLists}
    \cup {[NoOutput EXCEPT !.run_requests = <<RunRequest("k1"), RunRequest("k1")>>,
                           !.dagster_run_reactions = <<TRUE>>, !.skip_message = TRUE]}
    \cup {[NoOutput EXCEPT !.automation_condition_evaluations = TRUE,
                           !.skip_message = TRUE]}

\* sensor_runtime_data.run_requests or sensor_runtime_data.automation_condition_evaluations
has_requests_or_evaluations(sensor_runtime_data) ==
    \/ Len(sensor_runtime_data.run_requests) > 0
    \/ sensor_runtime_data.automation_condition_evaluations

\* neither run requests nor run reactions: the tick is skipped, with the skip
\* message as its reason when there is one
EvaluateSkip ==
    /\ pc = "evaluate"
    /\ \E sensor_runtime_data \in SensorOutputs :
         /\ ~has_requests_or_evaluations(sensor_runtime_data)
         /\ sensor_runtime_data.dagster_run_reactions = <<>>
         /\ LET skipped == update_state(tick, "SKIPPED", EmittedCursor, "none",
                                        tick.failure_count)
            IN  ExitContextRecording(
                    IF sensor_runtime_data.skip_message
                      THEN with_reason(skipped, "skip_message") ELSE skipped,
                    "none", cof, [hist EXCEPT !.output = sensor_runtime_data])
    /\ UNCHANGED <<clock, jumps, state, runs, backfills, nextId, snap, tasks, config, aside, pool>>

\* _handle_run_reactions: update_state once per reaction, the opt-in set by a reaction
\* with an error
RECURSIVE handle_run_reactions(_, _, _, _)
handle_run_reactions(t, opt_in, dagster_run_reactions, cursor) ==
    IF dagster_run_reactions = <<>>
      THEN [tick |-> t, should_update_cursor_on_failure |-> opt_in]
    ELSE IF Head(dagster_run_reactions)
      THEN handle_run_reactions(update_state(t, "FAILURE", cursor, "reaction", t.failure_count),
                                TRUE, Tail(dagster_run_reactions), cursor)
    ELSE handle_run_reactions(update_state(t, "SUCCESS", cursor, "none", t.failure_count),
                              opt_in, Tail(dagster_run_reactions), cursor)

\* no run requests but run reactions (run status sensors): _handle_run_reactions, then
\* the launch context is left
EvaluateRunReaction ==
    /\ pc = "evaluate"
    /\ \E sensor_runtime_data \in SensorOutputs :
         LET dagster_run_reactions == sensor_runtime_data.dagster_run_reactions
             handled == handle_run_reactions(tick, cof, dagster_run_reactions, EmittedCursor)
         IN  /\ ~has_requests_or_evaluations(sensor_runtime_data)
             /\ dagster_run_reactions # <<>>
             /\ ExitContextRecording(
                    handled.tick, "none", handled.should_update_cursor_on_failure,
                    [hist EXCEPT !.output = sensor_runtime_data,
                                 !.reaction_error =
                        \E i \in DOMAIN dagster_run_reactions : dagster_run_reactions[i]])
    /\ UNCHANGED <<clock, jumps, state, runs, backfills, nextId, snap, tasks, config, aside, pool>>

\* set_run_requests leaving out the write
set_run_requests_unwritten(stored, tick_id, t) == stored

\* SensorLaunchContext.set_run_requests: self._write() of the tick with its
\* requests and reserved ids (the tick is STARTED, so the state is not written)
set_run_requests(stored, tick_id, t) == [stored EXCEPT ![tick_id] = t]

\* run requests: _handle_run_requests_and_automation_condition_evaluations up to
\* context.set_run_requests
EvaluateRequests ==
    /\ pc = "evaluate"
    /\ \E sensor_runtime_data \in SensorOutputs :
         LET rl == sensor_runtime_data.run_requests
             reserved_run_ids == [i \in 1..Len(rl) |-> nextId + i - 1]
             t == with_run_requests(tick, rl, reserved_run_ids, EmittedCursor)
         IN  /\ has_requests_or_evaluations(sensor_runtime_data)
             /\ hist' = [hist EXCEPT !.output = sensor_runtime_data]
             /\ nextId + Len(rl) - 1 <= MaxId
             /\ nextId' = nextId + Len(rl)
             /\ tick' = t
             /\ ticks' = set_run_requests(ticks, tid, t)
             /\ pending' = [i \in 1..Len(rl) |->
                              [run_id |-> reserved_run_ids[i], request |-> rl[i]]]
    /\ out_cursor' = EmittedCursor
    /\ pc' = "resolve"
    /\ UNCHANGED <<clock, jumps, state, runs, backfills, snap, now, sensor_state, tid, cof,
                   resumed, existing, idx, tasks, config, aside, pool>>

\* ---------------------------------------------------------- Submission engine
RECURSIVE resolve_run_requests(_, _, _)
\* _resolve_run_requests: the requests at the positions of `dropped` have no stale asset
resolve_run_requests(run_ids_with_requests, dropped, i) ==
    IF i > Len(run_ids_with_requests) THEN <<>>
    ELSE (IF i \in dropped
            THEN <<>>
            ELSE <<[run_ids_with_requests[i] EXCEPT !.request.stale_assets_only = FALSE]>>)
         \o resolve_run_requests(run_ids_with_requests, dropped, i + 1)

\* the runs _fetch_existing_runs may return for a run key
runs_with_key(k) == {r \in Ids : runs[r].status # "none" /\ runs[r].run_key = k}

\* the maps _fetch_existing_runs may return for the requests
fetch_existing_runs(requests) ==
    { m \in [Keys -> Ids \cup {None}] :
        \A k \in Keys :
            IF (\E i \in DOMAIN requests : requests[i].request.run_key = k)
                 /\ runs_with_key(k) # {}
              THEN m[k] \in runs_with_key(k)
              ELSE m[k] = None }

\* the start of _submit_run_requests: resolve, fetch the existing runs, and hand
\* the requests to map
ResolveAndFetch ==
    /\ pc = "resolve"
    /\ \E dropped \in SUBSET {i \in DOMAIN pending : pending[i].request.stale_assets_only} :
         LET resolved == resolve_run_requests(pending, dropped, 1)
         IN  /\ pending' = resolved
             /\ \E m \in fetch_existing_runs(resolved) :
                  /\ existing' = m
                  /\ tasks' = tasks \cup
                       { [slot |-> i, run_id |-> resolved[i].run_id,
                          request |-> resolved[i].request,
                          existing_run |-> IF resolved[i].request.run_key \in Keys
                                             THEN m[resolved[i].request.run_key] ELSE None,
                          existing_status |->
                              IF resolved[i].request.run_key \in Keys
                                   /\ m[resolved[i].request.run_key] # None
                                THEN runs[m[resolved[i].request.run_key]].status
                                ELSE "none",
                          launched_before |->
                              \E r \in runs_with_key(resolved[i].request.run_key) :
                                  runs[r].status # "NOT_STARTED",
                          stage |-> "queued", run |-> None, result |-> "none",
                          error_info |-> FALSE]
                         : i \in DOMAIN resolved }
    /\ idx' = 1
    /\ pc' = "submit"
    /\ UNCHANGED <<clock, jumps, store, snap, now, sensor_state, tid, tick, cof, resumed,
                   out_cursor, config, aside, pool, hist>>

\* map runs submit_run_request for the element the consumer waits for; the pool
\* runs it for every element, and goes on with the ones left running
may_run(t) ==
    t.stage # "done" /\ (submit_threadpool_executor \/ (pc = "submit" /\ t.slot = idx))

\* existing_runs_by_key.get(run_request.run_key) or instance.get_run_by_id(run_id)
get_existing_run(t) ==
    IF t.existing_run # None THEN t.existing_run
    ELSE IF runs[t.run_id].status # "none" THEN t.run_id
    ELSE None

\* the status of that run as _get_or_create_sensor_run sees it: the one fetched with
\* the map, or the one get_run_by_id reads now
existing_status(t) ==
    IF t.existing_run # None THEN t.existing_status ELSE runs[t.run_id].status

\* what _get_or_create_sensor_run does: "skip", "reuse" or "create"
get_or_create_sensor_run(t) ==
    IF get_existing_run(t) # None
      THEN IF existing_status(t) # "NOT_STARTED" THEN "skip" ELSE "reuse"
      ELSE "create"

Replace(ts, t, u) == (ts \ {t}) \cup (IF u.slot = 0 /\ u.stage = "done" THEN {} ELSE {u})

\* _submit_backfill_request
TaskBackfill ==
    /\ \E t \in tasks :
         /\ may_run(t) /\ t.stage = "queued" /\ t.request.backfill
         /\ backfills' = [backfills EXCEPT ![t.run_id] = @ + 1]
         /\ tasks' = Replace(tasks, t, [t EXCEPT !.stage = "done", !.result = "backfill",
                                                 !.run = t.run_id])
    /\ UNCHANGED <<clock, jumps, state, ticks, runs, nextId, snap, pc, locals, config, aside, pool, hist>>

\* _submit_run_request: the run was launched already, nothing is created or submitted
TaskSkip ==
    /\ \E t \in tasks :
         /\ may_run(t) /\ t.stage = "queued" /\ ~t.request.backfill
         /\ get_or_create_sensor_run(t) = "skip"
         /\ tasks' = Replace(tasks, t, [t EXCEPT !.stage = "done", !.result = "skip"])
    /\ UNCHANGED <<clock, jumps, store, snap, pc, locals, config, aside, pool, hist>>

\* _submit_run_request: a run that was created and not launched is taken again
TaskReuse ==
    /\ \E t \in tasks :
         /\ may_run(t) /\ t.stage = "queued" /\ ~t.request.backfill
         /\ get_or_create_sensor_run(t) = "reuse"
         /\ tasks' = Replace(tasks, t, [t EXCEPT !.stage = "created",
                                                 !.run = get_existing_run(t)])
    /\ UNCHANGED <<clock, jumps, store, snap, pc, locals, config, aside, pool, hist>>

\* _submit_run_request: _create_sensor_run, instance.create_run under the reserved id
TaskCreate ==
    /\ \E t \in tasks :
         /\ may_run(t) /\ t.stage = "queued" /\ ~t.request.backfill
         /\ get_or_create_sensor_run(t) = "create"
         /\ runs' = [runs EXCEPT ![t.run_id] =
                       [status |-> "NOT_STARTED", run_key |-> t.request.run_key,
                        launches |-> 0]]
         /\ tasks' = Replace(tasks, t, [t EXCEPT !.stage = "created", !.run = t.run_id])
    /\ UNCHANGED <<clock, jumps, state, ticks, backfills, nextId, snap, pc, locals, config, aside, pool,
                   hist>>

\* _submit_run_request raises before the run is launched (the job cannot be
\* loaded, the run cannot be created)
TaskRaises ==
    /\ \E t \in tasks :
         /\ may_run(t) /\ t.stage = "queued" /\ ~t.request.backfill
         /\ \E exc \in {"error", "unreachable"} :
              tasks' = IF t.slot = 0 THEN tasks \ {t}
                       ELSE Replace(tasks, t, [t EXCEPT !.stage = "done", !.result = exc])
    /\ UNCHANGED <<clock, jumps, store, snap, pc, locals, config, aside, pool, hist>>

\* instance.submit_run returns
TaskLaunch ==
    /\ \E t \in tasks :
         /\ may_run(t) /\ t.stage = "created"
         /\ runs' = [runs EXCEPT ![t.run] = [@ EXCEPT !.status = "QUEUED",
                                                      !.launches = @ + 1]]
         /\ tasks' = Replace(tasks, t, [t EXCEPT !.stage = "done", !.result = "run"])
    /\ UNCHANGED <<clock, jumps, state, ticks, backfills, nextId, snap, pc, locals, config, aside, pool,
                   hist>>

\* _submit_run_request letting the exception of instance.submit_run out
submit_run_raises_uncaught(t) == [t EXCEPT !.stage = "done", !.result = "error"]

\* except Exception around instance.submit_run: the error goes on the
\* SubmitRunRequestResult, which is returned with the run
submit_run_raises(t) == [t EXCEPT !.stage = "done", !.result = "run", !.error_info = TRUE]

\* instance.submit_run raises
TaskLaunchRaises ==
    /\ \E t \in tasks :
         /\ may_run(t) /\ t.stage = "created"
         /\ tasks' = Replace(tasks, t, submit_run_raises(t))
    /\ UNCHANGED <<clock, jumps, store, snap, pc, locals, config, aside, pool, hist>>

\* the run info _submit_run_requests adds for a result
add_run_info(tk, t) ==
    IF t.result = "skip" THEN with_run_info(tk, None, t.request.run_key)
    ELSE IF t.result = "backfill" THEN with_run_info(tk, t.run, NoKey)
    ELSE with_run_info(tk, t.run, t.request.run_key)

\* for run_request_result in gen_run_request_results: the next result is there
Consume ==
    /\ pc = "submit"
    /\ \E t \in tasks :
         /\ t.slot = idx /\ t.stage = "done" /\ t.result \in {"skip", "backfill", "run"}
         /\ hist' = [hist EXCEPT !.yielded = IF t.error_info THEN "error_info" ELSE "None"]
         /\ tick' = add_run_info(tick, t)
         /\ tasks' = tasks \ {t}
    /\ idx' = idx + 1
    /\ UNCHANGED <<clock, jumps, store, snap, pc, now, sensor_state, tid, cof, resumed,
                   out_cursor, pending, existing, config, aside, pool>>

\* for run_request_result in gen_run_request_results: the next call has raised
ConsumeRaised ==
    /\ pc = "submit"
    /\ \E t \in tasks :
         /\ t.slot = idx /\ t.stage = "done" /\ t.result \in {"error", "unreachable"}
         /\ ExitContext(tick, t.result)
         /\ tasks' = left_running(tasks \ {t})
    /\ UNCHANGED <<clock, jumps, state, runs, backfills, nextId, snap, config, aside, pool>>

\* run_count counting the run keys, those of skipped runs included
run_count_of_keys(t) == Len(t.run_keys)

\* SensorLaunchContext.run_count
run_count(t) == Len(t.run_ids)

\* every result is consumed: the tick is SUCCESS or SKIPPED and the context is left
Finish ==
    /\ pc = "submit"
    /\ idx > Len(pending)
    /\ LET t == IF resumed
                  THEN update_state(tick, "SUCCESS", tick.cursor, "none", tick.failure_count)
                ELSE IF run_count(tick) > 0
                  THEN update_state(tick, "SUCCESS", out_cursor, "none", tick.failure_count)
                ELSE update_state(tick, "SKIPPED", out_cursor, "none", tick.failure_count)
       IN  ExitContext(t, "none")
    /\ tasks' = left_running(tasks)
    /\ UNCHANGED <<clock, jumps, state, runs, backfills, nextId, snap, config, aside, pool>>

\* the daemon closes the generator at a yield of _submit_run_requests: GeneratorExit
\* (inline only: with an evaluation pool _process_tick runs the generator to its end)
GeneratorExit ==
    /\ ~threadpool_executor
    /\ pc = "submit"
    /\ \/ idx > Len(pending)
       \/ \E t \in tasks : /\ t.slot = idx /\ t.stage = "done"
                             /\ t.result \in {"skip", "backfill", "run"}
    /\ ExitContext(tick, "none")
    /\ tasks' = left_running(tasks)
    /\ UNCHANGED <<clock, jumps, state, runs, backfills, nextId, snap, config, aside, pool>>

\* KeyboardInterrupt inside the launch context (the main thread, so inline only):
\* __exit__ returns at once, nothing is written, and the daemon goes down
KeyboardInterrupt ==
    /\ ~threadpool_executor
    /\ pc \in {"evaluate", "resolve", "submit"}
    /\ hist' = [hist EXCEPT !.kind = "exit", !.exc = "KeyboardInterrupt"]
    /\ pc' = "idle"
    /\ ResetLocals
    /\ tasks' = {}
    /\ UNCHANGED <<clock, jumps, store, snap, config, aside, pool>>

\* the daemon process is killed: its memory and its threads are gone
Crash ==
    /\ pc # "idle"
    /\ pc' = "idle"
    /\ ResetLocals
    /\ tasks' = {}
    /\ snap' = [taken |-> FALSE, state |-> NoState]
    /\ pool' = <<>>
    /\ UNCHANGED <<clock, jumps, store, config, aside, hist>>

ProcessTick ==
    \/ AdvanceClock
    \/ Dispatch
    \/ Begin
    \/ Select
    \/ EvaluateRaises
    \/ EvaluateSkip
    \/ EvaluateRunReaction
    \/ EvaluateRequests
    \/ ResolveAndFetch
    \/ TaskBackfill
    \/ TaskSkip
    \/ TaskReuse
    \/ TaskCreate
    \/ TaskRaises
    \/ TaskLaunch
    \/ TaskLaunchRaises
    \/ Consume
    \/ ConsumeRaised
    \/ Finish
    \/ WriteState
    \/ Crash

\* the daemon without pools: ticks are processed inline, runs submitted one by one
InitInline == Init /\ ~threadpool_executor /\ loop = NoLoop /\ gate = NoGate /\ parts = NoParts /\ iteration = NoIteration

Next == ProcessTick \/ GeneratorExit \/ KeyboardInterrupt

Spec == InitInline /\ [][Next]_vars

\* the daemon with an evaluation pool and no submission pool: a pass may come with
\* a snapshot that is older than the last tick
InitPool ==
    Init /\ threadpool_executor /\ ~submit_threadpool_executor /\ loop = NoLoop /\ gate = NoGate /\ parts = NoParts /\ iteration = NoIteration

NextPool == ProcessTick \/ StartProcessTick \/ TakeSnapshot \/ DispatchSnapshot

SpecPool == InitPool /\ [][NextPool]_vars

\* the daemon with both pools, in the behaviours in which every pass takes its
\* snapshot after the last tick is done
InitSubmitPool == Init /\ submit_threadpool_executor /\ loop = NoLoop /\ gate = NoGate /\ parts = NoParts /\ iteration = NoIteration

NextSubmitPool == ProcessTick \/ StartProcessTick

SpecSubmitPool == InitSubmitPool /\ [][NextSubmitPool]_vars

\* ------------------------------------------------------------ Iteration loop
\* the number of yielded values the history of the loop keeps (the last ones): the
\* values of one pass
MaxYielded == 6

\* the number of values one execute_sensor_iteration yields at most
MaxHeartbeats == 2

\* the passes started with shutdown_event set are counted up to this number
MaxCounted == 2

\* the generator yields v
Yield(yielded, v) ==
    IF Len(yielded) < MaxYielded THEN Append(yielded, v) ELSE Append(Tail(yielded), v)

\* execute_sensor_iteration_loop is called, with or without `until`
LoopStarts == {[NoLoop EXCEPT !.pc = "top", !.until = u] : u \in BOOLEAN}

\* while True: break when `until` is reached, else yield SpanMarker.START_SPAN
LoopTop ==
    /\ loop.pc = "top"
    /\ loop' = IF loop.until /\ loop.expired
                 THEN [loop EXCEPT !.pc = "done"]
                 ELSE [loop EXCEPT !.pc = "iteration", !.heartbeats = 0,
                                   !.yielded = Yield(@, "START_SPAN"),
                                   !.started_after_shutdown =
                                       IF loop.shutdown_event /\ @ < MaxCounted
                                         THEN @ + 1 ELSE @]
    /\ UNCHANGED <<daemon, gate, parts, iteration>>

\* yield from execute_sensor_iteration: a value of the iteration is passed on
IterationYields ==
    /\ loop.pc = "iteration" /\ loop.heartbeats < MaxHeartbeats
    /\ loop' = [loop EXCEPT !.yielded = Yield(@, "heartbeat"), !.heartbeats = @ + 1]
    /\ UNCHANGED <<daemon, gate, parts, iteration>>

\* execute_sensor_iteration returns
IterationReturns ==
    /\ loop.pc = "iteration"
    /\ loop' = [loop EXCEPT !.pc = "end_span"]
    /\ UNCHANGED <<daemon, gate, parts, iteration>>

\* the except clause going straight to the sleep
except_Exception_leaves_pass(l) ==
    [l EXCEPT !.pc = "wait", !.yielded = Yield(@, "error_info")]

\* except Exception: yield error_info, then on to the END_SPAN of the pass
except_Exception(l) ==
    [l EXCEPT !.pc = "end_span", !.yielded = Yield(@, "error_info")]

\* execute_sensor_iteration raises an Exception
IterationRaises ==
    /\ loop.pc = "iteration"
    /\ loop' = except_Exception(loop)
    /\ UNCHANGED <<daemon, gate, parts, iteration>>

\* yield SpanMarker.END_SPAN
EndSpan ==
    /\ loop.pc = "end_span"
    /\ loop' = [loop EXCEPT !.pc = "wait", !.yielded = Yield(@, "END_SPAN")]
    /\ UNCHANGED <<daemon, gate, parts, iteration>>

\* shutdown_event.wait sleeping whether or not the event is set
wait_ignoring_event(shutdown_event, timeout) == timeout > 0

\* shutdown_event.wait(timeout): whether the loop sleeps
wait(shutdown_event, timeout) == ~shutdown_event /\ timeout > 0

\* sleep_time = max(0, MIN_INTERVAL_LOOP_TIME - loop_duration);
\* shutdown_event.wait(sleep_time); yield None
Wait ==
    /\ loop.pc = "wait"
    /\ \E loop_duration \in {0, MIN_INTERVAL_LOOP_TIME + 1} :
         LET sleep_time == Max(0, MIN_INTERVAL_LOOP_TIME - loop_duration)
         IN  loop' = [loop EXCEPT !.pc = "top", !.yielded = Yield(@, "None"),
                                  !.slept = wait(loop.shutdown_event, sleep_time)]
    /\ UNCHANGED <<daemon, gate, parts, iteration>>

\* the daemon is told to shut down
SetShutdownEvent ==
    /\ loop.pc \notin {"none", "done"} /\ ~loop.shutdown_event
    /\ loop' = [loop EXCEPT !.shutdown_event = TRUE]
    /\ UNCHANGED <<daemon, gate, parts, iteration>>

\* the time given as `until` comes
UntilReached ==
    /\ loop.pc \notin {"none", "done"} /\ loop.until /\ ~loop.expired
    /\ loop' = [loop EXCEPT !.expired = TRUE]
    /\ UNCHANGED <<daemon, gate, parts, iteration>>

InitLoop ==
    Init /\ ~threadpool_executor /\ ~submit_threadpool_executor /\ gate = NoGate
         /\ parts = NoParts /\ iteration = NoIteration
         /\ loop \in LoopStarts

NextLoop ==
    \/ LoopTop \/ IterationYields \/ IterationReturns \/ IterationRaises \/ EndSpan \/ Wait
    \/ SetShutdownEvent \/ UntilReached

SpecLoop == InitLoop /\ [][NextLoop]_vars

\* the consumer goes on taking values and every iteration comes to an end
SpecLoopFair ==
    /\ InitLoop /\ [][NextLoop]_vars
    /\ WF_vars(LoopTop) /\ WF_vars(EndSpan) /\ WF_vars(Wait)
    /\ WF_vars(IterationReturns \/ IterationRaises)
    /\ WF_vars(UntilReached)

\* ---------------------------------------------------- Interval gate, by itself
\* the arguments of a call of is_under_min_interval
GateTimes == {None, 10, 40, 41}

GateInputs ==
    { [NoGate EXCEPT !.state = [present |-> p, last_tick_timestamp |-> t,
                                last_tick_start_timestamp |-> st],
                     !.min_interval_seconds = m, !.current_timestamp = c] :
        p \in BOOLEAN, t \in GateTimes, st \in GateTimes,
        m \in {None, MinIntervalSeconds}, c \in {40, 41, 70, 71} }

\* is_under_min_interval(state, external_sensor) is called and returns
CallGate ==
    /\ ~gate.returned
    /\ gate' = [gate EXCEPT !.returned = TRUE,
                            !.result =
                   is_under_min_interval(gate.state, gate.min_interval_seconds,
                                         gate.current_timestamp)]
    /\ UNCHANGED <<daemon, loop, parts, iteration>>

InitGate ==
    Init /\ ~threadpool_executor /\ ~submit_threadpool_executor /\ loop = NoLoop
         /\ parts = NoParts /\ iteration = NoIteration
         /\ gate \in GateInputs

NextGate == CallGate

SpecGate == InitGate /\ [][NextGate]_vars

\* ---------------------------------------------------------- Dynamic partitions
\* _handle_dynamic_partitions_requests on its own: the store of dynamic partitions
\* and the results the handler appends to the tick of the launch context.
PartitionsDefNames == {"d1"}
PartitionKeys == {"p1", "p2"}
MaxPartitionKeys == 2
MaxRequests == 2

\* request.partition_keys: a sequence, which may be empty or name a key twice
PartitionKeyLists == UNION {[1..n -> PartitionKeys] : n \in 0..MaxPartitionKeys}

\* AddDynamicPartitionsRequest and DeleteDynamicPartitionsRequest
DynamicPartitionsRequests ==
    [ action : {"add", "delete"}, partitions_def_name : PartitionsDefNames,
      partition_keys : PartitionKeyLists ]

\* instance.has_dynamic_partition
has_dynamic_partition(dynamic_partitions, partitions_def_name, partition_key) ==
    <<partitions_def_name, partition_key>> \in dynamic_partitions

\* instance.add_dynamic_partitions
add_dynamic_partitions(dynamic_partitions, partitions_def_name, partition_keys) ==
    dynamic_partitions \cup {<<partitions_def_name, k>> : k \in SeqToSet(partition_keys)}

\* instance.delete_dynamic_partition, once for each key of the list
delete_dynamic_partitions(dynamic_partitions, partitions_def_name, partition_keys) ==
    dynamic_partitions \ {<<partitions_def_name, k>> : k \in SeqToSet(partition_keys)}

\* the handler recording a result only for a request that changed the store
handle_request_recording_changes(p, request) ==
    LET has(k) == has_dynamic_partition(p.dynamic_partitions, request.partitions_def_name, k)
        lacks(k) == ~has(k)
        existent_partitions == SelectSeq(request.partition_keys, has)
        nonexistent_partitions == SelectSeq(request.partition_keys, lacks)
        changed == IF request.action = "add" THEN nonexistent_partitions
                   ELSE existent_partitions
        skipped == IF request.action = "add" THEN existent_partitions
                   ELSE nonexistent_partitions
    IN  [p EXCEPT
           !.before = p.dynamic_partitions,
           !.idx = @ + 1,
           !.dynamic_partitions =
               IF request.action = "add"
                 THEN add_dynamic_partitions(@, request.partitions_def_name, changed)
                 ELSE delete_dynamic_partitions(@, request.partitions_def_name, changed),
           !.dynamic_partitions_request_results =
               IF changed = <<>> THEN @
               ELSE Append(@, [partitions_def_name |-> request.partitions_def_name,
                               added_partitions |->
                                   IF request.action = "add" THEN changed ELSE <<None>>,
                               deleted_partitions |->
                                   IF request.action = "add" THEN <<None>> ELSE changed,
                               skipped_partitions |-> skipped])]

\* the body of the loop of _handle_dynamic_partitions_requests for one request:
\* the claimed keys are split by has_dynamic_partition before the store changes
handle_request(p, request) ==
    LET has(k) == has_dynamic_partition(p.dynamic_partitions, request.partitions_def_name, k)
        lacks(k) == ~has(k)
        existent_partitions == SelectSeq(request.partition_keys, has)
        nonexistent_partitions == SelectSeq(request.partition_keys, lacks)
    IN  IF request.action = "add"
          THEN [p EXCEPT
                 !.before = p.dynamic_partitions,
                 !.idx = @ + 1,
                 !.dynamic_partitions =
                     IF nonexistent_partitions # <<>>
                       THEN add_dynamic_partitions(@, request.partitions_def_name,
                                                   nonexistent_partitions)
                       ELSE @,
                 !.dynamic_partitions_request_results =
                     Append(@, [partitions_def_name |-> request.partitions_def_name,
                                added_partitions |-> nonexistent_partitions,
                                deleted_partitions |-> <<None>>,
                                skipped_partitions |-> existent_partitions])]
          ELSE [p EXCEPT
                 !.before = p.dynamic_partitions,
                 !.idx = @ + 1,
                 !.dynamic_partitions =
                     IF existent_partitions # <<>>
                       THEN delete_dynamic_partitions(@, request.partitions_def_name,
                                                      existent_partitions)
                       ELSE @,
                 !.dynamic_partitions_request_results =
                     Append(@, [partitions_def_name |-> request.partitions_def_name,
                                added_partitions |-> <<None>>,
                                deleted_partitions |-> existent_partitions,
                                skipped_partitions |-> nonexistent_partitions])]

\* one pass of `for request in dynamic_partitions_requests`: the requests of the
\* list are drawn one by one, as the loop reaches them
HandleRequest ==
    /\ Len(parts.dynamic_partitions_requests) < MaxRequests
    /\ \E request \in DynamicPartitionsRequests :
         parts' = handle_request(
                      [parts EXCEPT !.dynamic_partitions_requests = Append(@, request)],
                      request)
    /\ UNCHANGED <<daemon, loop, gate, iteration>>

\* the handler returns after at least one request; _evaluate_sensor calls it again
\* for a later tick, which has no results yet
CallHandler ==
    /\ Len(parts.dynamic_partitions_requests) >= 1
    /\ parts' = [parts EXCEPT !.dynamic_partitions_requests = <<>>,
                              !.idx = 1,
                              !.dynamic_partitions_request_results = <<>>,
                              !.before = parts.dynamic_partitions]
    /\ UNCHANGED <<daemon, loop, gate, iteration>>

InitPartitions ==
    Init /\ ~threadpool_executor /\ ~submit_threadpool_executor /\ loop = NoLoop
         /\ gate = NoGate /\ parts = NoParts /\ iteration = NoIteration

NextPartitions == CallHandler \/ HandleRequest

SpecPartitions == InitPartitions /\ [][NextPartitions]_vars

\* ------------------------------------- execute_sensor_iteration, several sensors
\* One call of execute_sensor_iteration without evaluation pool over the sensors of
\* the workspace, with _process_tick_generator reduced to its stages: the gate and
\* the mark, the selection of the tick, the evaluation inside the launch context,
\* the submission of the runs, the yield of error_info.
NumSensors == 2
SensorIndex == 1..NumSensors
IterationTime == 40

\* repo.get_external_sensors(): the sensor's type and its default status
ExternalSensors ==
    [ handled_by_asset_daemon : BOOLEAN, default_status : {"RUNNING", "STOPPED"} ]

\* the stored state of a sensor of that type: none, or one with a status and with
\* or without a tick started 20 s before the iteration
StoredStates(handled_by_asset_daemon) ==
    {NoSensorState} \cup
    { [ present |-> TRUE, status |-> st, handled_by_asset_daemon |-> handled_by_asset_daemon,
        last_tick_timestamp |-> None, last_tick_start_timestamp |-> t ] :
        st \in {"RUNNING", "STOPPED", "DECLARED_IN_CODE"}, t \in {None, IterationTime - 20} }

\* the state the loop adds for a sensor that has none
NewSensorState(sensor) ==
    [ present |-> TRUE, status |-> "DECLARED_IN_CODE",
      handled_by_asset_daemon |-> sensor.handled_by_asset_daemon,
      last_tick_timestamp |-> None, last_tick_start_timestamp |-> None ]

\* instance.all_instigator_state(...) without the states handled by the asset daemon
filter_all_sensor_states(instigator_states) ==
    [n \in DOMAIN instigator_states |->
        IF instigator_states[n].present /\ ~instigator_states[n].handled_by_asset_daemon
          THEN instigator_states[n] ELSE NoSensorState]

\* ExternalSensor.get_current_instigator_state(stored_state).status
get_current_instigator_state(sensor, stored_state) ==
    IF sensor.default_status = "RUNNING"
      THEN IF stored_state.present THEN stored_state.status ELSE "DECLARED_IN_CODE"
      ELSE IF stored_state.present /\ stored_state.status # "DECLARED_IN_CODE"
             THEN stored_state.status ELSE "STOPPED"

\* InstigatorState.is_running
is_running(status) == status # "STOPPED"

\* the loop taking every sensor of the workspace that is not the asset daemon's
takes_sensor_of_any_status(sensor, stored_state) == ~sensor.handled_by_asset_daemon

\* the body of the loop that fills `sensors`: is the sensor taken
takes_sensor(sensor, stored_state) ==
    /\ ~sensor.handled_by_asset_daemon
    /\ is_running(get_current_instigator_state(sensor, stored_state))

\* the exception leaving _process_tick_generator and with it the iteration
raise_Exception(it) == [it EXCEPT !.pc = "done"]

\* except Exception in _process_tick_generator: error_info is captured
capture_Exception(it) == [it EXCEPT !.error_info = TRUE, !.pc = "yield"]

\* all_sensor_states and sensors are built; without sensors the iteration yields
\* once and returns
StartIteration ==
    /\ iteration.pc = "start"
    /\ LET all_sensor_states == filter_all_sensor_states(iteration.instigator_states)
           sensors == SelectSeq([n \in SensorIndex |-> n],
                                LAMBDA n : takes_sensor(iteration.external_sensors[n],
                                                        all_sensor_states[n]))
       IN  iteration' = [iteration EXCEPT
               !.all_sensor_states = all_sensor_states,
               !.sensors = sensors,
               !.i = 1,
               !.yielded = IF sensors = <<>> THEN Append(@, [sensor |-> 0, error_info |-> FALSE])
                           ELSE @,
               !.pc = IF sensors = <<>> THEN "done" ELSE "for"]
    /\ UNCHANGED <<daemon, loop, gate, parts>>

\* for external_sensor in sensors.values(): a sensor without state gets one, a
\* sensor under its interval is passed over, else _process_tick_generator is called
ForExternalSensor ==
    /\ iteration.pc = "for"
    /\ iteration.i <= Len(iteration.sensors)
    /\ LET n == iteration.sensors[iteration.i]
           sensor_state_of_snapshot == iteration.all_sensor_states[n]
       IN  iteration' =
             IF ~sensor_state_of_snapshot.present
               THEN [iteration EXCEPT
                       !.instigator_states[n] = NewSensorState(iteration.external_sensors[n]),
                       !.state_writes[n] = @ + 1,
                       !.pc = "begin"]
             ELSE IF is_under_min_interval(sensor_state_of_snapshot, MinIntervalSeconds,
                                           IterationTime)
               THEN [iteration EXCEPT !.i = @ + 1]
             ELSE [iteration EXCEPT !.pc = "begin"]
    /\ UNCHANGED <<daemon, loop, gate, parts>>

\* the loop is over: the iteration returns
IterationEnds ==
    /\ iteration.pc = "for"
    /\ iteration.i > Len(iteration.sensors)
    /\ iteration' = [iteration EXCEPT !.pc = "done"]
    /\ UNCHANGED <<daemon, loop, gate, parts>>

\* _process_tick_generator up to the try: the state is read again, the gate is
\* asked again, the state is marked
BeginProcessTick ==
    /\ iteration.pc = "begin"
    /\ LET n == iteration.sensors[iteration.i]
           stored == iteration.instigator_states[n]
       IN  iteration' =
             IF is_under_min_interval(stored, MinIntervalSeconds, IterationTime)
               THEN [iteration EXCEPT !.processed = @ \cup {n}, !.i = @ + 1, !.pc = "for"]
               ELSE [iteration EXCEPT
                       !.processed = @ \cup {n},
                       !.instigator_states[n].last_tick_start_timestamp = IterationTime,
                       !.state_writes[n] = @ + 1,
                       !.pc = "select"]
    /\ UNCHANGED <<daemon, loop, gate, parts>>

\* tick = _get_evaluation_tick(...): a tick is stored as STARTED
GetEvaluationTick ==
    /\ iteration.pc = "select"
    /\ LET n == iteration.sensors[iteration.i]
       IN  iteration' = [iteration EXCEPT
               !.ticks[n] = Append(@, [status |-> "STARTED", error |-> FALSE]),
               !.pc = "context"]
    /\ UNCHANGED <<daemon, loop, gate, parts>>

\* _get_evaluation_tick raises (a call of the tick storage fails): no launch
\* context is entered
GetEvaluationTickRaises ==
    /\ iteration.pc = "select"
    /\ LET n == iteration.sensors[iteration.i]
       IN  iteration' = capture_Exception([iteration EXCEPT !.raised[n] = "select"])
    /\ UNCHANGED <<daemon, loop, gate, parts>>

\* _evaluate_sensor inside the launch context: the user code is evaluated and
\* returns nothing to run (the context closes SKIPPED), returns requests, or raises
\* (the context closes FAILURE with the error, then the except clause is reached)
EvaluateSensor ==
    /\ iteration.pc = "context"
    /\ LET n == iteration.sensors[iteration.i]
           last == Len(iteration.ticks[n])
           evaluated == [iteration EXCEPT !.evaluations[n] = @ + 1]
       IN  \/ iteration' = [evaluated EXCEPT
                   !.ticks[n][last].status = "SKIPPED",
                   !.instigator_states[n].last_tick_timestamp = IterationTime,
                   !.state_writes[n] = @ + 1,
                   !.pc = "yield"]
           \/ iteration' = [evaluated EXCEPT !.pc = "submit"]
           \/ iteration' = capture_Exception(
                   [evaluated EXCEPT
                      !.ticks[n][last] = [status |-> "FAILURE", error |-> TRUE],
                      !.instigator_states[n].last_tick_timestamp = IterationTime,
                      !.state_writes[n] = @ + 1,
                      !.raised[n] = "evaluate"])
    /\ UNCHANGED <<daemon, loop, gate, parts>>

\* _submit_run_requests inside the launch context: the runs are submitted and the
\* context closes SUCCESS, or an exception leaves it and the context closes FAILURE
SubmitRunRequests ==
    /\ iteration.pc = "submit"
    /\ LET n == iteration.sensors[iteration.i]
           last == Len(iteration.ticks[n])
       IN  \/ iteration' = [iteration EXCEPT
                   !.ticks[n][last].status = "SUCCESS",
                   !.instigator_states[n].last_tick_timestamp = IterationTime,
                   !.state_writes[n] = @ + 1,
                   !.pc = "yield"]
           \/ iteration' = capture_Exception(
                   [iteration EXCEPT
                      !.ticks[n][last] = [status |-> "FAILURE", error |-> TRUE],
                      !.instigator_states[n].last_tick_timestamp = IterationTime,
                      !.state_writes[n] = @ + 1,
                      !.raised[n] = "submit"])
    /\ UNCHANGED <<daemon, loop, gate, parts>>

\* yield error_info: the last value of _process_tick_generator; the loop goes on
YieldErrorInfo ==
    /\ iteration.pc = "yield"
    /\ iteration' = [iteration EXCEPT
           !.yielded = Append(@, [sensor |-> iteration.sensors[iteration.i],
                                  error_info |-> iteration.error_info]),
           !.error_info = FALSE,
           !.i = @ + 1,
           !.pc = "for"]
    /\ UNCHANGED <<daemon, loop, gate, parts>>

\* the workspace and the store at the call of execute_sensor_iteration: the stored
\* state of a sensor has the sensor's type
IterationStarts ==
    { [NoIteration EXCEPT
         !.pc = "start",
         !.external_sensors = e,
         !.instigator_states = st,
         !.all_sensor_states = [n \in SensorIndex |-> NoSensorState],
         !.ticks = [n \in SensorIndex |-> <<>>],
         !.evaluations = [n \in SensorIndex |-> 0],
         !.state_writes = [n \in SensorIndex |-> 0],
         !.raised = [n \in SensorIndex |-> "none"]] :
        e \in [SensorIndex -> ExternalSensors],
        st \in [SensorIndex ->
                  UNION {StoredStates(h) : h \in BOOLEAN}] }

InitIteration ==
    Init /\ ~threadpool_executor /\ ~submit_threadpool_executor /\ loop = NoLoop
         /\ gate = NoGate /\ parts = NoParts
         /\ iteration \in IterationStarts
         /\ \A n \in SensorIndex :
               iteration.instigator_states[n].present =>
                   iteration.instigator_states[n].handled_by_asset_daemon
                       = iteration.external_sensors[n].handled_by_asset_daemon

NextIteration ==
    \/ StartIteration
    \/ ForExternalSensor
    \/ IterationEnds
    \/ BeginProcessTick
    \/ GetEvaluationTick
    \/ GetEvaluationTickRaises
    \/ EvaluateSensor
    \/ SubmitRunRequests
    \/ YieldErrorInfo

SpecIteration == InitIteration /\ [][NextIteration]_vars

\* ==================================================================== claims

\* C1: in every persisted version of every tick, each element of run_ids is one of
\* the tick's reserved_run_ids, and there are no more run_ids than reserved ids.
C1_RunIdsAreReserved ==
    \A i \in DOMAIN ticks :
        /\ SeqToSet(ticks[i].run_ids) \subseteq SeqToSet(ticks[i].reserved_run_ids)
        /\ Len(ticks[i].run_ids) <= Len(ticks[i].reserved_run_ids)

\* the runs that exist in the run storage
CreatedRuns == {r \in Ids : runs[r].status # "none"}

\* the tick whose evaluation reserved the id r (a retry tick carries the ids of
\* the tick it retries, so the first tick holding the id is the one that emitted it)
EmittingTick(r) ==
    IF \E i \in DOMAIN ticks : r \in SeqToSet(ticks[i].reserved_run_ids)
      THEN CHOOSE i \in DOMAIN ticks :
               /\ r \in SeqToSet(ticks[i].reserved_run_ids)
               /\ \A j \in DOMAIN ticks :
                     r \in SeqToSet(ticks[j].reserved_run_ids) => i <= j
      ELSE 0

\* C2: when two different ticks emit a request with the same run key, create_run
\* is performed at most once for that key: no two runs that carry the same key
\* were emitted by different ticks.
C2_OneCreatePerKeyAcrossTicks ==
    \A r1, r2 \in CreatedRuns :
        (r1 # r2 /\ runs[r1].run_key = runs[r2].run_key /\ runs[r1].run_key # NoKey)
            => EmittingTick(r1) = EmittingTick(r2)

\* C3: in every reachable state there is at most one run per run key of the sensor.
C3_OneRunPerKey ==
    \A r1, r2 \in CreatedRuns :
        (runs[r1].run_key = runs[r2].run_key /\ runs[r1].run_key # NoKey) => r1 = r2

\* the calls of submit_run_request of the tick in process that have launched a run
LaunchedTasks == {t \in tasks : t.slot > 0 /\ t.stage = "done" /\ t.result = "run"}

\* C4: a tick killed after set_run_requests and before any submission is, inside
\* the resume window, resumed as the same tick; every run launched for it is
\* launched under the reserved id of its request; and no more runs are created
\* for its requests than it has reserved ids.
C4_ResumeLaunchesReservedIds ==
    (hist.kind = "select" /\ hist.interrupted /\ pc \in {"evaluate", "resolve", "submit"})
        => /\ resumed /\ pc # "evaluate"
           /\ tid = hist.tid /\ tick.timestamp < now
           /\ \A t \in LaunchedTasks : t.run = t.run_id
           /\ Cardinality({r \in CreatedRuns : EmittingTick(r) = tid})
                 <= Len(tick.reserved_run_ids)

\* the tick the last close finalized
ClosedTick == ticks[hist.tid]

\* C5: when a resumed or retried tick finalizes SUCCESS, every reserved request the
\* resolver cannot drop has exactly one work item: a backfill request one
\* add_backfill under its reserved id, a run request a run.
C5_ExactlyOneWorkItem ==
    (hist.kind = "close" /\ hist.status = "SUCCESS" /\ hist.resumed)
        => \A i \in DOMAIN ClosedTick.reserved_run_ids :
              LET id == ClosedTick.reserved_run_ids[i]
                  request == ClosedTick.run_requests[i]
              IN  IF request.backfill THEN backfills[id] = 1
                  ELSE IF request.stale_assets_only THEN TRUE
                  ELSE \/ runs[id].status # "none"
                       \/ \E r \in CreatedRuns : runs[r].run_key = request.run_key

RECURSIVE SumLaunches(_)
SumLaunches(S) ==
    IF S = {} THEN 0
    ELSE LET r == CHOOSE x \in S : TRUE
         IN  runs[r].launches + SumLaunches(S \ {r})

\* the calls of instance.submit_run that returned, for the runs of a run key
LaunchesOfKey(k) == SumLaunches({r \in CreatedRuns : runs[r].run_key = k})

\* C6: for each run key, instance.submit_run completes at most once over all
\* ticks, resumptions and retries.
C6_OneLaunchPerKey == \A k \in Keys : LaunchesOfKey(k) <= 1

\* C7: after a tick closes with FAILURE and without the cursor-on-failure opt-in,
\* the stored cursor and last_run_key are the ones from before the tick started.
C7_FailureKeepsCursor ==
    (hist.kind = "close" /\ hist.status = "FAILURE" /\ ~hist.cof)
        => /\ state.cursor = hist.pre_cursor
           /\ state.last_run_key = hist.pre_last_run_key

\* a FAILURE close without the opt-in of a tick that had persisted a new cursor and
\* recorded a run key
C7_Witness ==
    /\ hist.kind = "close" /\ hist.status = "FAILURE" /\ ~hist.cof
    /\ ClosedTick.cursor # hist.pre_cursor
    /\ Len(ClosedTick.run_keys) > 0

\* C8: every write of last_tick_start_timestamp stores a value that is not smaller
\* than the one stored before.
C8_StartTimestampMonotone ==
    [][state'.last_tick_start_timestamp >= state.last_tick_start_timestamp]_vars

\* the close of a resumed tick whose own timestamp is older than the stored mark
C8_Witness ==
    /\ hist.kind = "close" /\ hist.resumed
    /\ ClosedTick.timestamp < state.last_tick_start_timestamp

\* seconds of tolerance: one tick of the loop
Tolerance == MIN_INTERVAL_LOOP_TIME

PersistedReservations ==
    UNION {SeqToSet(ticks[i].reserved_run_ids) : i \in DOMAIN ticks}

\* C11: a call of create_run, submit_run or add_backfill under a reserved id comes
\* after the tick was persisted with that id in reserved_run_ids: every call for
\* the tick in process has its id among the stored reservations of that tick, and
\* every run or backfill in the store has its id among the stored reservations.
C11_ReservationWrittenFirst ==
    /\ \A t \in tasks :
          t.slot > 0 => t.run_id \in SeqToSet(ticks[tid].reserved_run_ids)
    /\ \A r \in Ids :
          (runs[r].status # "none" \/ backfills[r] > 0) => r \in PersistedReservations

\* a retry tick, cloned from a failed tick by create_tick, has created a run under
\* an id it took over with the clone
C11_Witness ==
    /\ pc = "submit" /\ tid > 1 /\ ticks[tid].failure_count > 0
    /\ ticks[tid].reserved_run_ids = ticks[tid - 1].reserved_run_ids
    /\ \E t \in tasks : t.slot > 0 /\ t.stage = "created" /\ t.run = t.run_id

\* C12: with an evaluation pool, at most one call of _process_tick for the sensor
\* is queued or running at any moment, over any number of passes of the loop.
C12_OneTickInFlight == threadpool_executor => in_flight <= 1

\* a later pass of the loop holds its snapshot and reaches the sensor while the
\* call of the pass before is submitting runs: the sensor is dropped for the pass
C12_Witness ==
    /\ threadpool_executor /\ snap.taken
    /\ pc = "submit" /\ Len(ticks) >= 2

\* C13: no call of submit_run_request made for a tick is still running after the
\* launch context of the tick has closed (the calls left running are the ones of
\* slot 0).
C13_NoWorkAfterClose == \A t \in tasks : t.slot > 0

C15_ClosedTickIsFinished ==
    hist.kind \in {"close", "exit"} => ticks[hist.tid].status \in FINISHED_TICK_STATES

\* C16: a step that leaves the launch context by KeyboardInterrupt or GeneratorExit
\* stores the tick the context holds, run info included, with no error, not as
\* FAILURE and with its failure_count as it was.
C16_CancellationFlushes ==
    [][(hist.kind = "select" /\ hist'.kind = "exit")
          => /\ ticks'[tid] = tick
             /\ ticks'[tid].error = "none"
             /\ ticks'[tid].status # "FAILURE"
             /\ ticks'[tid].failure_count = hist.failure_count]_vars

\* C17: a tick closed as FAILURE for another cause than an unreachable user code
\* server is stored with a failure_count one greater than the one it had when its
\* launch context was opened; so is a tick failed by a run reaction with an error.
C17_FailureCounts ==
    (hist.kind = "close" /\ hist.status = "FAILURE" /\ hist.exc # "unreachable")
        => ClosedTick.failure_count = hist.failure_count + 1

\* C18: when the launch context is left with an error of an unreachable user code
\* server, the tick is stored as FAILURE with an error and with the failure_count
\* it had before, and the stored cursor and last_run_key are the ones from before
\* the tick.
C18_UnreachableKeepsCount ==
    (hist.kind = "close" /\ hist.exc = "unreachable")
        => /\ ClosedTick.status = "FAILURE"
           /\ ClosedTick.error # "none"
           /\ ClosedTick.failure_count = hist.failure_count
           /\ state.cursor = hist.pre_cursor
           /\ state.last_run_key = hist.pre_last_run_key

\* submission of a retry tick that had failed once before raised the error, after
\* the tick had taken a new cursor and recorded a run key
C18_Witness ==
    /\ hist.kind = "close" /\ hist.exc = "unreachable"
    /\ hist.failure_count > 0
    /\ ClosedTick.cursor # hist.pre_cursor
    /\ Len(ClosedTick.run_keys) > 0

\* the retry ticks of the reservations of tick i: the ticks the selector made by
\* cloning the tick before them, which held the same reservations
RetryTicks(i) ==
    {j \in DOMAIN ticks :
        /\ j > 1
        /\ ticks[j].reserved_run_ids = ticks[i].reserved_run_ids
        /\ ticks[j - 1].reserved_run_ids = ticks[i].reserved_run_ids}

\* C19: for the reservations of one evaluation the selector makes at most
\* MAX_FAILURE_RESUBMISSION_RETRIES retry ticks, whatever made the ticks fail.
C19_OneRetryPerEvaluation ==
    \A i \in DOMAIN ticks :
        Len(ticks[i].reserved_run_ids) > 0
            => Cardinality(RetryTicks(i)) <= MAX_FAILURE_RESUBMISSION_RETRIES

\* C19 as amended: for the reservations of one evaluation the selector makes at
\* most MAX_FAILURE_RESUBMISSION_RETRIES retry ticks from ticks that failed with a
\* general error (a failure with an unreachable user code server is not counted
\* and is retried again); after a failure that takes failure_count over the limit
\* the next tick is a fresh one, without these reservations.
C19_OneRetryPerGeneralError ==
    /\ \A i \in DOMAIN ticks :
          Len(ticks[i].reserved_run_ids) > 0
              => Cardinality({j \in RetryTicks(i) : ticks[j - 1].error = "error"})
                    <= MAX_FAILURE_RESUBMISSION_RETRIES
    /\ \A j \in DOMAIN ticks :
          (/\ j > 1
           /\ ticks[j - 1].status = "FAILURE"
           /\ ticks[j - 1].failure_count > MAX_FAILURE_RESUBMISSION_RETRIES
           /\ Len(ticks[j - 1].reserved_run_ids) > 0)
              => ticks[j].reserved_run_ids # ticks[j - 1].reserved_run_ids

\* a tick failed with a general error, its retry failed with one too, and the
\* selector made a fresh tick
C19_Witness ==
    /\ Len(ticks) = 3
    /\ 2 \in RetryTicks(1)
    /\ ticks[1].error = "error" /\ ticks[2].error = "error"
    /\ ticks[2].failure_count = MAX_FAILURE_RESUBMISSION_RETRIES + 1
    /\ Len(ticks[3].reserved_run_ids) = 0

\* the cursor the sensor emitted for the reservations or the skip of tick i: the
\* one of the evaluation that made them (a retry tick holds the reservations and
\* the cursor of the tick it retries)
CursorEmittedFor(i) ==
    IF Len(ticks[i].reserved_run_ids) > 0
      THEN EmittingTick(ticks[i].reserved_run_ids[1])
      ELSE i

\* C20: after a tick closes as SKIPPED or SUCCESS the stored state has the cursor
\* emitted for the tick, the last run key recorded on the tick (the one from
\* before when the tick recorded none), the timestamp of the tick as
\* last_tick_timestamp, and a last_tick_success_timestamp.
C20_SuccessAdvancesState ==
    (hist.kind = "close" /\ hist.status \in {"SKIPPED", "SUCCESS"})
        => /\ state.cursor = CursorEmittedFor(hist.tid)
           /\ state.last_run_key =
                 (IF Len(ClosedTick.run_keys) > 0
                    THEN ClosedTick.run_keys[Len(ClosedTick.run_keys)]
                    ELSE hist.pre_last_run_key)
           /\ state.last_tick_timestamp = ClosedTick.timestamp
           /\ state.last_tick_success_timestamp # None

\* the second tick closed as SUCCESS with a run key recorded, after a first tick
\* that had stored its own cursor
C20_Witness ==
    /\ hist.kind = "close" /\ hist.status = "SUCCESS" /\ hist.tid > 1
    /\ Len(ClosedTick.run_keys) > 0
    /\ hist.pre_cursor # None
    /\ hist.pre_cursor # CursorEmittedFor(hist.tid)

\* C21: when a run with the key of a request had left NOT_STARTED before the tick that
\* emits the request looked the runs up, the tick neither creates nor submits a run
\* for the request: its call takes no run, and its result is never a launched run
C21_LaunchedKeySkipped ==
    \A t \in tasks :
        (~resumed /\ pc = "submit" /\ t.slot # 0 /\ t.launched_before /\ ~t.request.backfill)
            => (t.stage # "created" /\ t.result # "run")

\* the tick in process is an interrupted STARTED tick the selector has returned
ResumedStarted ==
    /\ hist.resumed /\ hist.selected.status = "STARTED" /\ ~hist.created
    /\ Len(hist.selected.run_ids) < Len(hist.selected.reserved_run_ids)

C23_ReactionErrorAdvancesCursor ==
    (hist.kind = "close" /\ hist.reaction_error)
        => /\ hist.status = "FAILURE"
           /\ hist.cof
           /\ state.cursor = hist.tid
           /\ state.last_run_key = hist.pre_last_run_key

\* a finished call whose run was taken and is still NOT_STARTED: submit_run raised
LaunchFailed(t) ==
    /\ t.slot # 0 /\ t.stage = "done" /\ ~t.request.backfill
    /\ t.run # None /\ runs[t.run].status = "NOT_STARTED"

\* C24: when instance.submit_run raises for a request whose run exists, the result
\* of the request carries the error and the run; the step that takes the result
\* off the submission does not store the tick as FAILURE, and when the loop goes on
\* it has yielded the error, recorded the id of the run on the tick, and left the
\* other requests of the tick to be submitted.
C24_LaunchErrorIsReported ==
    [][\A t \in tasks :
          (pc = "submit" /\ LaunchFailed(t) /\ t.slot = idx)
              => /\ t.error_info /\ t.result = "run"
                 /\ t \notin tasks' =>
                       /\ ticks'[tid].status # "FAILURE"
                       /\ pc' = "submit" =>
                             /\ hist'.yielded = "error_info"
                             /\ tick'.run_ids = Append(tick.run_ids, t.run)
                             /\ tasks' = tasks \ {t}
                             /\ idx' = idx + 1]_vars

\* a tick closed as SUCCESS with two runs recorded, the first one not launched
\* because submit_run raised, the second one launched after it
C24_Witness ==
    /\ hist.kind = "close" /\ hist.status = "SUCCESS" /\ ~hist.resumed
    /\ Len(ClosedTick.run_ids) = 2
    /\ runs[ClosedTick.run_ids[1]].status = "NOT_STARTED"
    /\ runs[ClosedTick.run_ids[2]].launches = 1

\* the most recent tick stored for the sensor
LatestTick == ticks[Len(ticks)]

\* C27: whenever the selector is entered with a sensor state that has a
\* last_tick_success_timestamp, the most recent stored tick is neither STARTED nor
\* a FAILURE with unsubmitted reservations; and the stored state has no
\* last_tick_success_timestamp while the most recent stored tick is not SKIPPED or
\* SUCCESS.
C27_SuccessTimestampMeansNoUnfinishedWork ==
    /\ (pc = "select" /\ sensor_state.last_tick_success_timestamp # None /\ Len(ticks) > 0)
          => /\ LatestTick.status # "STARTED"
             /\ ~(LatestTick.status = "FAILURE" /\ has_unrequested_runs(LatestTick))
    /\ (state.last_tick_success_timestamp # None /\ Len(ticks) > 0)
          => LatestTick.status \in {"SKIPPED", "SUCCESS"}

\* the selector is entered with a last_tick_success_timestamp after an earlier tick
\* that had reserved run ids
C27_Witness ==
    /\ pc = "select" /\ sensor_state.last_tick_success_timestamp # None
    /\ Len(ticks) > 0 /\ Len(LatestTick.reserved_run_ids) > 0

\* the selector is left after it has looked up the latest stored tick
SelectorLooksUp ==
    /\ pc = "select" /\ pc' \in {"evaluate", "resolve"}
    /\ Len(ticks) > 0
    /\ ~(sensor_state.present /\ sensor_state.last_tick_success_timestamp # None)

\* the tick has a reserved run id that is not among its run ids
HasUnsubmittedReservation(t) ==
    \E i \in 1..Len(t.reserved_run_ids) :
        \A j \in 1..Len(t.run_ids) : t.run_ids[j] # t.reserved_run_ids[i]

\* C28: the selector that looks up a latest tick T in STARTED returns T and creates
\* no tick exactly when T has unsubmitted reservations and is at most
\* MAX_TIME_TO_RESUME_TICK_SECONDS older than the evaluation; every other STARTED T
\* is stored as SKIPPED and a fresh STARTED tick with the timestamp of the
\* evaluation is created and returned.
C28_ResumeWindow ==
    [][(SelectorLooksUp /\ LatestTick.status = "STARTED") =>
          IF /\ HasUnsubmittedReservation(LatestTick)
             /\ now - LatestTick.timestamp <= 86400
            THEN /\ ticks' = ticks
                 /\ tid' = Len(ticks) /\ tick' = LatestTick
            ELSE /\ Len(ticks') = Len(ticks) + 1
                 /\ \A i \in 1..(Len(ticks) - 1) : ticks'[i] = ticks[i]
                 /\ ticks'[Len(ticks)] = [LatestTick EXCEPT !.status = "SKIPPED"]
                 /\ tid' = Len(ticks) + 1 /\ tick' = ticks'[tid']
                 /\ tick' = [NoTick EXCEPT !.status = "STARTED", !.timestamp = now]]_vars

\* a tick is resumed exactly MAX_TIME_TO_RESUME_TICK_SECONDS after its timestamp
C28_Witness ==
    /\ hist.kind = "select" /\ hist.resumed /\ ~hist.created /\ pc = "resolve"
    /\ now - tick.timestamp = 86400

\* C29: the selector that looks up a latest tick T in FAILURE always creates and
\* returns a new tick: when T has a failure_count of at most 1 and unsubmitted
\* reservations, a tick with the run requests, reserved ids, run ids, cursor and
\* failure_count of T, in STARTED, without error and with the timestamp of the
\* evaluation; otherwise a fresh empty tick. T is left as it is.
C29_RetryOfFailedTick ==
    [][(SelectorLooksUp /\ LatestTick.status = "FAILURE") =>
          /\ Len(ticks') = Len(ticks) + 1
          /\ \A i \in 1..Len(ticks) : ticks'[i] = ticks[i]
          /\ tid' = Len(ticks) + 1 /\ tick' = ticks'[tid']
          /\ IF LatestTick.failure_count <= 1 /\ HasUnsubmittedReservation(LatestTick)
               THEN tick' = [LatestTick EXCEPT !.status = "STARTED", !.error = "none",
                                               !.timestamp = now]
               ELSE tick' = [NoTick EXCEPT !.status = "STARTED", !.timestamp = now]]_vars

\* a tick created from a failed tick that had recorded one of its runs and had
\* failed once
C29_Witness ==
    /\ hist.kind = "select" /\ hist.created /\ hist.resumed /\ pc = "resolve"
    /\ Len(ticks) > 1 /\ ticks[Len(ticks) - 1].status = "FAILURE"
    /\ hist.selected.failure_count = 1
    /\ Len(hist.selected.run_ids) > 0

\* the markers among the values the loop has yielded, in order
Markers == SelectSeq(loop.yielded, LAMBDA v : v \in {"START_SPAN", "END_SPAN"})

\* the marker yielded last before the i-th value, "none" when the history has none
MarkerBefore(i) ==
    LET before == SelectSeq(SubSeq(loop.yielded, 1, i - 1),
                            LAMBDA v : v \in {"START_SPAN", "END_SPAN"})
    IN  IF before = <<>> THEN "none" ELSE before[Len(before)]

\* C25: the markers the loop yields alternate, the first of them being START_SPAN;
\* the values of an iteration and the error of an iteration that raised come after
\* the START_SPAN of the pass and before its END_SPAN; after the error the next
\* value is END_SPAN; and the loop is in its iteration only with START_SPAN being
\* the last marker it has yielded, and sleeps only with END_SPAN being the last.
C25_SpansAlternate ==
    /\ \A i \in 1..(Len(Markers) - 1) : Markers[i] # Markers[i + 1]
    /\ (Len(loop.yielded) < MaxYielded /\ Markers # <<>>) => Markers[1] = "START_SPAN"
    /\ \A i \in 1..Len(loop.yielded) :
          /\ loop.yielded[i] \in {"heartbeat", "error_info"}
                => MarkerBefore(i) \in {"START_SPAN", "none"}
          /\ (loop.yielded[i] = "error_info" /\ i < Len(loop.yielded))
                => loop.yielded[i + 1] = "END_SPAN"
          /\ loop.yielded[i] = "None" => MarkerBefore(i) \in {"END_SPAN", "none"}
    /\ loop.pc = "iteration" => MarkerBefore(Len(loop.yielded) + 1) = "START_SPAN"
    /\ (loop.pc \in {"wait", "top", "done"} /\ loop.yielded # <<>>)
          => MarkerBefore(Len(loop.yielded) + 1) = "END_SPAN"
    /\ loop.pc = "end_span" => MarkerBefore(Len(loop.yielded) + 1) = "START_SPAN"

\* a pass whose iteration raised is followed by the start of the next pass
C25_Witness ==
    /\ Len(loop.yielded) >= 5
    /\ SubSeq(loop.yielded, Len(loop.yielded) - 4, Len(loop.yielded))
          = <<"START_SPAN", "error_info", "END_SPAN", "None", "START_SPAN">>

\* C26 as stated: once shutdown_event is set the loop terminates
C26_TerminatesAfterShutdown == loop.shutdown_event ~> (loop.pc = "done")

\* C26: once shutdown_event is set the loop does not sleep between its passes any
\* more (shutdown_event.wait returns at once and the next value is yielded); the
\* loop itself terminates only when `until` is given and reached.
C26_ShutdownOnlyWakes ==
    [][/\ (loop.pc = "wait" /\ loop'.pc = "top" /\ loop.shutdown_event) => ~loop'.slept
       /\ loop'.pc = "done" => (loop.until /\ loop.expired)]_vars

\* passes have been started with shutdown_event set, in a loop without `until`, and
\* the loop has not slept before the next one
C26_Witness ==
    /\ loop.shutdown_event /\ ~loop.until /\ ~loop.slept
    /\ loop.started_after_shutdown = MaxCounted
    /\ loop.pc = "top"

\* C30: is_under_min_interval returns false for a state without instigator data,
\* for one with neither last_tick_timestamp nor last_tick_start_timestamp, and for a
\* min_interval_seconds that is unset or 0; otherwise it returns true exactly when
\* the time since the greater of the two timestamps is less than
\* min_interval_seconds.
C30_IntervalGate ==
    gate.returned =>
        LET last_tick_timestamp == gate.state.last_tick_timestamp
            last_tick_start_timestamp == gate.state.last_tick_start_timestamp
            latest == IF last_tick_timestamp >= last_tick_start_timestamp
                        THEN last_tick_timestamp ELSE last_tick_start_timestamp
        IN  gate.result =
              IF \/ ~gate.state.present
                 \/ (last_tick_timestamp = 0 /\ last_tick_start_timestamp = 0)
                 \/ gate.min_interval_seconds = 0
                THEN FALSE
                ELSE gate.current_timestamp - latest < gate.min_interval_seconds

\* the gate holds back a sensor whose last finished tick is older than the interval
\* and whose last started tick is not
C30_Witness ==
    /\ gate.returned /\ gate.result
    /\ gate.state.last_tick_start_timestamp > gate.state.last_tick_timestamp
    /\ gate.current_timestamp - gate.state.last_tick_timestamp >= gate.min_interval_seconds


\* the tick just closed was evaluated in this pass and left without an exception
FreshlyEvaluated ==
    hist.kind = "close" /\ hist.exc = "none" /\ ~hist.resumed /\ ~hist.interrupted

\* C31: the status of a freshly evaluated tick is a function of the sensor output:
\* without run requests and automation evaluations the last run reaction decides
\* it, and without reactions the tick is SKIPPED with a skip reason exactly when
\* there is a skip message; with run requests or automation evaluations the
\* reactions and the skip message are ignored and the tick is SUCCESS exactly
\* when a run or backfill id was recorded on it, SKIPPED otherwise.
C31_StatusFromOutput ==
    FreshlyEvaluated =>
        LET o == hist.output
            r == o.dagster_run_reactions
        IN  IF has_requests_or_evaluations(o)
              THEN /\ ClosedTick.status = (IF Len(ClosedTick.run_ids) > 0
                                             THEN "SUCCESS" ELSE "SKIPPED")
                   /\ ClosedTick.skip_reason = "none"
                   /\ ClosedTick.error = "none"
            ELSE IF r # <<>>
              THEN ClosedTick.status = (IF r[Len(r)] THEN "FAILURE" ELSE "SUCCESS")
            ELSE /\ ClosedTick.status = "SKIPPED"
                 /\ (ClosedTick.skip_reason # "none") <=> o.skip_message

\* a tick with run requests, a reaction and a skip message closed SKIPPED because
\* every request was skipped, with no skip reason
C31_Witness ==
    /\ FreshlyEvaluated
    /\ Len(hist.output.run_requests) > 0
    /\ hist.output.skip_message
    /\ hist.output.dagster_run_reactions # <<>>
    /\ ClosedTick.status = "SKIPPED"
    /\ Len(ClosedTick.run_keys) > 0


\* the request the handler processed last, its result on the tick, and the
\* partitions it claims
LastRequest == parts.dynamic_partitions_requests[parts.idx - 1]
LastResult ==
    parts.dynamic_partitions_request_results[Len(parts.dynamic_partitions_request_results)]
Claimed ==
    {<<LastRequest.partitions_def_name, k>> : k \in SeqToSet(LastRequest.partition_keys)}
Occurrences(seq, k) == Cardinality({i \in DOMAIN seq : seq[i] = k})

\* C32: after a request is processed the store is the store before it plus the
\* claimed keys (Add) or minus the claimed keys (Delete), the keys added or
\* deleted are the claimed keys that were missing or present; the tick has one
\* result per processed request, whose added or deleted keys and skipped keys
\* split the claimed keys; and the second of two equal requests in a row leaves
\* the store as the first left it.
C32_DynamicPartitionsIdempotent ==
    parts.idx > 1 =>
        LET results == parts.dynamic_partitions_request_results
            add == LastRequest.action = "add"
            changed == IF add THEN LastResult.added_partitions
                       ELSE LastResult.deleted_partitions
            skipped == LastResult.skipped_partitions
        IN  /\ Len(results) = parts.idx - 1
            /\ LastResult.partitions_def_name = LastRequest.partitions_def_name
            /\ IF add
                 THEN /\ parts.dynamic_partitions = parts.before \cup Claimed
                      /\ SeqToSet(changed) =
                           {c[2] : c \in Claimed \ parts.before}
                      /\ LastResult.deleted_partitions = <<None>>
                 ELSE /\ parts.dynamic_partitions = parts.before \ Claimed
                      /\ SeqToSet(changed) =
                           {c[2] : c \in Claimed \cap parts.before}
                      /\ LastResult.added_partitions = <<None>>
            /\ SeqToSet(changed) \cap SeqToSet(skipped) = {}
            /\ \A k \in PartitionKeys :
                   Occurrences(changed, k) + Occurrences(skipped, k)
                       = Occurrences(LastRequest.partition_keys, k)
            /\ (parts.idx > 2 /\ parts.dynamic_partitions_requests[parts.idx - 2] = LastRequest)
                   => (parts.dynamic_partitions = parts.before /\ changed = <<>>)

\* an Add request of two keys was applied twice in a row to a store that had one
\* of them: the first pass added the other and skipped the one, the second pass
\* added nothing and skipped both
C32_Witness ==
    /\ parts.idx = 3
    /\ parts.dynamic_partitions_requests[1] = parts.dynamic_partitions_requests[2]
    /\ LastRequest.action = "add"
    /\ LastRequest.partition_keys = <<"p1", "p2">>
    /\ parts.dynamic_partitions_request_results[1].added_partitions = <<"p2">>
    /\ parts.dynamic_partitions_request_results[1].skipped_partitions = <<"p1">>
    /\ LastResult.added_partitions = <<>>
    /\ LastResult.skipped_partitions = <<"p1", "p2">>

\* C35: at most one persisted tick of the sensor is STARTED after any step, and
\* the step that creates a tick leaves no tick stored before it in STARTED.
C35_AtMostOneStartedTick ==
    [][/\ Cardinality({i \in DOMAIN ticks' : ticks'[i].status = "STARTED"}) <= 1
       /\ Len(ticks') > Len(ticks) =>
              \A i \in DOMAIN ticks : ticks'[i].status # "STARTED"]_vars

\* a tick left STARTED by an interruption was moved to SKIPPED by the selector,
\* which created the tick that is STARTED now
C35_Witness ==
    /\ Len(ticks) >= 2
    /\ ticks[Len(ticks)].status = "STARTED"
    /\ ticks[Len(ticks) - 1].status = "SKIPPED"
    /\ ticks[Len(ticks) - 1].reserved_run_ids # <<>>


\* the reserved run ids of the tick just closed whose run exists and was launched
LaunchedReservations ==
    {r \in SeqToSet(ClosedTick.reserved_run_ids) :
        runs[r].status \notin {"none", "NOT_STARTED"}}

\* C36: when a tick finalizes SUCCESS, every reserved run id of the tick whose run
\* exists and has been launched is in the run_ids of the stored tick, the runs
\* launched before a crash and found launched by the resumed tick included.
C36_LaunchedRunsAreRecorded ==
    (hist.kind = "close" /\ hist.status = "SUCCESS")
        => LaunchedReservations \subseteq SeqToSet(ClosedTick.run_ids)


\* C34: once the stored last_sensor_start_timestamp is set, no step of the daemon
\* (the mark before a tick, the close of the launch context on any outcome)
\* changes it.
C34_SensorStartTimestampKept ==
    [][state.last_sensor_start_timestamp # None
          => state'.last_sensor_start_timestamp = state.last_sensor_start_timestamp]_vars

\* a later pass marked the state and its tick closed with FAILURE, and the state
\* still has the last_sensor_start_timestamp the loop gave it at the first pass
C34_Witness ==
    /\ hist.kind = "close"
    /\ hist.status = "FAILURE"
    /\ state.last_sensor_start_timestamp = 1
    /\ state.last_tick_start_timestamp > 1


\* the status the sensor n had when the iteration read the states: the stored one,
\* the default for a sensor without state, and STOPPED for a sensor that is stopped
\* by default and has only a DECLARED_IN_CODE state left
StatusAtSnapshot(n) ==
    LET sensor == iteration.external_sensors[n]
        stored == iteration.all_sensor_states[n]
    IN  IF ~stored.present
          THEN (IF sensor.default_status = "RUNNING" THEN "DECLARED_IN_CODE" ELSE "STOPPED")
        ELSE IF stored.status = "DECLARED_IN_CODE" /\ sensor.default_status = "STOPPED"
          THEN "STOPPED"
        ELSE stored.status

\* the iteration did something for the sensor n: a tick, an evaluation of the user
\* code, a write of its state
Touched(n) ==
    \/ iteration.ticks[n] # <<>>
    \/ iteration.evaluations[n] > 0
    \/ iteration.state_writes[n] > 0
    \/ n \in iteration.processed

\* C33: in an iteration only a sensor that is not handled by the asset daemon and
\* whose current state is running gets a tick, an evaluation or a state write; and
\* a sensor dispatched without stored state has been given a DECLARED_IN_CODE
\* state, and runs by default.
C33_OnlyRunningSensors ==
    iteration.pc \notin {"none", "start"} =>
        \A n \in SensorIndex :
            /\ Touched(n) =>
                  /\ ~iteration.external_sensors[n].handled_by_asset_daemon
                  /\ StatusAtSnapshot(n) \in {"RUNNING", "DECLARED_IN_CODE"}
            /\ (n \in iteration.processed /\ ~iteration.all_sensor_states[n].present) =>
                  /\ iteration.external_sensors[n].default_status = "RUNNING"
                  /\ iteration.instigator_states[n].present
                  /\ iteration.instigator_states[n].status = "DECLARED_IN_CODE"

\* the iteration is over: the first sensor is stopped by default, has a
\* DECLARED_IN_CODE state and got nothing; the second had no state, got one and
\* a tick
C33_Witness ==
    /\ iteration.pc = "done"
    /\ iteration.external_sensors[1].default_status = "STOPPED"
    /\ ~iteration.external_sensors[1].handled_by_asset_daemon
    /\ iteration.all_sensor_states[1].present
    /\ iteration.all_sensor_states[1].status = "DECLARED_IN_CODE"
    /\ ~Touched(1)
    /\ ~iteration.all_sensor_states[2].present
    /\ iteration.instigator_states[2].status = "DECLARED_IN_CODE"
    /\ iteration.ticks[2] # <<>>

\* the captured exception of the sensor n was yielded
YieldedErrorOf(n) ==
    \E k \in DOMAIN iteration.yielded :
        iteration.yielded[k] = [sensor |-> n, error_info |-> TRUE]

\* the exception of the sensor n is recorded on its tick
RecordedOnTick(n) ==
    /\ iteration.ticks[n] # <<>>
    /\ iteration.ticks[n][Len(iteration.ticks[n])] = [status |-> "FAILURE", error |-> TRUE]

\* every sensor the iteration took has been processed, or was passed over because
\* its last tick started less than its interval ago
AllProcessed ==
    \A k \in DOMAIN iteration.sensors :
        LET n == iteration.sensors[k]
        IN  \/ n \in iteration.processed
            \/ iteration.all_sensor_states[n].last_tick_start_timestamp
                   > IterationTime - MinIntervalSeconds

\* C37 as claimed: when the inline iteration is over, the exception raised for a
\* sensor while its tick was selected, it was evaluated or its runs were submitted
\* has been yielded and is recorded on the sensor's tick, and every sensor of the
\* iteration has been processed.
C37_ExceptionRecordedOnTick ==
    iteration.pc = "done" =>
        /\ AllProcessed
        /\ \A n \in SensorIndex :
               iteration.raised[n] # "none" => (YieldedErrorOf(n) /\ RecordedOnTick(n))

\* C37, amended: the exception has been yielded and every sensor of the iteration
\* has been processed; it is recorded on the sensor's tick when it was raised
\* inside the launch context (evaluation, submission), and on no tick when it was
\* raised by the selection of the tick.
C37_ExceptionCapturedAndYielded ==
    iteration.pc = "done" =>
        /\ AllProcessed
        /\ \A n \in SensorIndex :
               /\ iteration.raised[n] # "none" => YieldedErrorOf(n)
               /\ iteration.raised[n] \in {"evaluate", "submit"} => RecordedOnTick(n)
               /\ iteration.raised[n] = "select" => iteration.ticks[n] = <<>>

\* the selection of the tick raised for the first sensor and the submission for
\* the second, both exceptions were yielded and the iteration is over
C37_Witness ==
    /\ iteration.pc = "done"
    /\ iteration.raised[1] = "select"
    /\ iteration.raised[2] = "submit"
    /\ YieldedErrorOf(1)
    /\ YieldedErrorOf(2)
    /\ RecordedOnTick(2)

====
